---- MODULE Spec2Model ----
(***************************************************************************)
(* Verification model of the operator/CLI support code:                    *)
(*   - xdsStatus, StatusWriter and XdsStatusWriter (pilot status printer)  *)
(*   - diffWalk (istioctl revision describe, customization diff)           *)
(*   - Validate / validateLeaf (operator CR tree validator)                *)
(*   - processBundle, writeBootstrapBundle, copyBootstrapBundle and the    *)
(*     argument checks of istioctl sidecar-bootstrap                       *)
(* Strings whose content matters (paths, rendered values) are sequences of *)
(* tokens; a token is a maximal piece of text that holds no separator.     *)
(***************************************************************************)
EXTENDS Integers, Sequences, FiniteSets, TLC

VARIABLES
    \* ---- xdsStatus calls
    sent, acked, label, prevCall,
    \* ---- StatusWriter / XdsStatusWriter
    writer, statuses, XDSCols, drs, pending,
    fullStatus, hasTab, rawOut, tabOut, swPc,
    \* ---- diffWalk
    dfObj, dfOrig, dfOrder, dfRes,
    \* ---- Validate
    structPtr, validations, requiredValues, checkRequired, mapOrder, vlRes,
    \* ---- sidecar-bootstrap bundles
    bbOp, bundle, remoteDir, items, failing, writes, startIstioProxy, sshLog, bbRes,
    \* ---- sidecar-bootstrap arguments
    nargs, flags, argRes,
    \* ---- sidecar-bootstrap ingress gateway address
    meshNetworks, globalNetwork, ingressService, services, gwRes,
    \* ---- revision describe
    sections, output, fetchFails, printFails, rdRes,
    \* ---- validateAddonComponents
    acVal, acOrder, acRes,
    \* ---- Validate, the path slices of a walk
    pwRoot, pwOrder, pwGrowth, pwRes,
    \* ---- sidecar-bootstrap, a run over the workloads
    wkEntries, wkOutput, wkFails, wkRes,
    \* ---- revision list
    rlHooks, rlCRs, rlVerbose, rlFormat, rlOrder, rlFails, rlRes

xdsVars == <<sent, acked, label, prevCall>>
swVars == <<writer, statuses, XDSCols, drs, pending,
            fullStatus, hasTab, rawOut, tabOut, swPc>>
dfVars == <<dfObj, dfOrig, dfOrder, dfRes>>
vlVars == <<structPtr, validations, requiredValues, checkRequired, mapOrder, vlRes>>
bbVars == <<bbOp, bundle, remoteDir, items, failing, writes, startIstioProxy, sshLog, bbRes>>
argVars == <<nargs, flags, argRes>>
gwVars == <<meshNetworks, globalNetwork, ingressService, services, gwRes>>
rdVars == <<sections, output, fetchFails, printFails, rdRes>>
acVars == <<acVal, acOrder, acRes>>
pwVars == <<pwRoot, pwOrder, pwGrowth, pwRes>>
wkVars == <<wkEntries, wkOutput, wkFails, wkRes>>
rlVars == <<rlHooks, rlCRs, rlVerbose, rlFormat, rlOrder, rlFails, rlRes>>
cliVars == <<bbVars, argVars, gwVars, rdVars, acVars, pwVars, wkVars, rlVars>>
vars == <<xdsVars, swVars, dfVars, vlVars, cliVars>>

(***************************************************************************)
(* Bounds                                                                  *)
(***************************************************************************)
\* proxies reported by one controller node (StatusWriter)
MaxPerNode == 1

\* resources carried by one discovery response (XdsStatusWriter)
MaxResources == 2

\* nesting depth of the trees handed to diffWalk
MaxDepth == 2

\* elements of a slice field of a validated struct
MaxElems == 2

(***************************************************************************)
(* Generic helpers                                                         *)
(***************************************************************************)
SeqsUpTo(S, n) == UNION {[1..k -> S] : k \in 0..n}

Range(s) == {s[i] : i \in DOMAIN s}

Perms(n) == {p \in [1..n -> 1..n] : \A i, j \in 1..n : i # j => p[i] # p[j]}

(***************************************************************************)
(* xdsStatus                                                               *)
(***************************************************************************)
Nonces == {"", "n1", "n2", "n3"}

\* plausible slip: the never-acknowledged test placed before the equality test
\* is harmless, but testing acked before sent is not
xdsStatus_AckedFirst(s, a) ==
    IF a = "" THEN "STALE (Never Acknowledged)"
    ELSE IF s = "" THEN "NOT SENT"
    ELSE IF s = a THEN "SYNCED"
    ELSE "STALE"

xdsStatus(s, a) ==
    IF s = "" THEN "NOT SENT"
    ELSE IF s = a THEN "SYNCED"
    ELSE IF a = "" THEN "STALE (Never Acknowledged)"
    ELSE "STALE"

NoCall == [sent |-> "", acked |-> "", label |-> "-"]

XdsIdle == sent = "" /\ acked = "" /\ label = "-" /\ prevCall = NoCall

\* one call of xdsStatus; the previous call is remembered to compare labels
XdsStatusCall ==
    \E s \in Nonces, a \in Nonces :
        /\ sent' = s
        /\ acked' = a
        /\ label' = xdsStatus(s, a)
        /\ prevCall' = [sent |-> sent, acked |-> acked, label |-> label]
        /\ UNCHANGED <<swVars, dfVars, vlVars, cliVars>>

(***************************************************************************)
(* Status payloads                                                         *)
(***************************************************************************)
Pilots == {"istiod-1", "istiod-2"}

ProxyIDs == {"proxy-a", "proxy-b"}

\* Go compares strings bytewise; the proxy IDs differ in their last byte
ProxyRank == [p \in ProxyIDs |-> IF p = "proxy-a" THEN 1 ELSE 2]

StrLess(x, y) == ProxyRank[x] < ProxyRank[y]

LegacyCols == {"CDS", "LDS", "RDS", "EDS"}

NoNonce == [NonceSent |-> "", NonceAcked |-> ""]

Pair(s, a) == [NonceSent |-> s, NonceAcked |-> a]

\* xds.SyncStatus as decoded from the JSON payload: the legacy per-channel
\* fields and the generic per-type map Statuses
MkSync(id, iv, pv, cl, li, ro, en, sts) ==
    [ProxyID |-> id, IstioVersion |-> iv, ProxyVersion |-> pv,
     ClusterSent |-> cl.NonceSent, ClusterAcked |-> cl.NonceAcked,
     ListenerSent |-> li.NonceSent, ListenerAcked |-> li.NonceAcked,
     RouteSent |-> ro.NonceSent, RouteAcked |-> ro.NonceAcked,
     EndpointSent |-> en.NonceSent, EndpointAcked |-> en.NonceAcked,
     Statuses |-> sts]

AllTypes(p) == [t \in {"CDS", "LDS", "RDS", "EDS", "ECDS"} |-> p]

SyncStatuses ==
    UNION {{
        \* producer fills both shapes consistently
        MkSync(id, "1.10", "1.10", Pair("n1", "n1"), Pair("n1", "n1"),
               Pair("n1", "n1"), Pair("n1", "n1"), AllTypes(Pair("n1", "n1"))),
        \* producer fills only the per-type map
        MkSync(id, "1.10", "1.9", NoNonce, NoNonce, NoNonce, NoNonce,
               AllTypes(Pair("n2", "n1"))),
        \* older producer: legacy fields only, no version
        MkSync(id, "", "1.1", Pair("n1", "n2"), Pair("n1", ""),
               NoNonce, Pair("n1", "n1"), [t \in {} |-> NoNonce]),
        \* partial per-type map
        MkSync(id, "1.10", "1.10", Pair("n1", ""), Pair("n1", "n1"),
               Pair("n2", "n2"), NoNonce,
               [t \in {"CDS", "ECDS"} |-> Pair("n1", "n1")])
    } : id \in ProxyIDs}

\* a []byte payload: either JSON of a status list, or bytes that do not decode
BadPayload == [ok |-> FALSE, ss |-> <<>>]

Payloads == {BadPayload} \cup {[ok |-> TRUE, ss |-> l] : l \in SeqsUpTo(SyncStatuses, MaxPerNode)}

StatusMaps == UNION {[ps -> Payloads] : ps \in SUBSET Pilots}

XDSColChoices == {<<"CDS", "LDS", "EDS", "RDS">>, <<"RDS", "ECDS">>}

(***************************************************************************)
(* StatusWriter                                                            *)
(***************************************************************************)
\* v3.GetShortType: a type URL is mapped to its short name, anything else is
\* returned as it is
GetShortType(ty) ==
    CASE ty = "type.googleapis.com/envoy.config.cluster.v3.Cluster" -> "CDS"
      [] ty = "type.googleapis.com/envoy.config.listener.v3.Listener" -> "LDS"
      [] ty = "type.googleapis.com/envoy.config.route.v3.RouteConfiguration" -> "RDS"
      [] ty = "type.googleapis.com/envoy.config.endpoint.v3.ClusterLoadAssignment" -> "EDS"
      [] OTHER -> ty

\* sw.Statuses[k]: a missing key reads as the zero value
StatusesAt(sw, k) == IF k \in DOMAIN sw.Statuses THEN sw.Statuses[k] ELSE NoNonce

\* the label statusPrintln computes for one column
ColumnStatus(sw, ty) ==
    LET generic == xdsStatus(StatusesAt(sw, GetShortType(ty)).NonceSent,
                             StatusesAt(sw, GetShortType(ty)).NonceAcked)
    IN CASE ty = "CDS" -> xdsStatus(sw.ClusterSent, sw.ClusterAcked)
         [] ty = "LDS" -> xdsStatus(sw.ListenerSent, sw.ListenerAcked)
         [] ty = "RDS" -> xdsStatus(sw.RouteSent, sw.RouteAcked)
         [] ty = "EDS" -> xdsStatus(sw.EndpointSent, sw.EndpointAcked)
         [] OTHER -> generic

\* the row statusPrintln writes for one writerStatus
statusPrintln(cols, sw) ==
    [ProxyID |-> sw.status.ProxyID,
     cols |-> [i \in DOMAIN cols |-> ColumnStatus(sw.status, cols[i])],
     pilot |-> sw.pilot,
     version |-> IF sw.status.IstioVersion = ""
                 THEN <<sw.status.ProxyVersion, "*">>
                 ELSE <<sw.status.IstioVersion>>]

\* sort.Slice is not stable: any ordering of the slice that is sorted by key
SortedOrders(s, keys) ==
    {[i \in DOMAIN s |-> s[p[i]]] : p \in
        {q \in Perms(Len(s)) :
            \A i, j \in 1..Len(s) : i < j => ~StrLess(keys[q[j]], keys[q[i]])}}

\* plausible slip: the slice is returned in gathering order
sortStatuses_Unsorted(full) == {full}

\* setupStatusPrint, the sort.Slice call by ProxyID
sortStatuses(full) == SortedOrders(full, [i \in DOMAIN full |-> full[i].status.ProxyID])

NoMap == [n \in {} |-> BadPayload]

NoOutput == [header |-> <<>>, rows |-> <<>>]

SwIdle ==
    /\ writer = "-" /\ statuses = NoMap /\ XDSCols = <<>> /\ drs = NoMap
    /\ pending = {} /\ fullStatus = <<>>
    /\ hasTab = FALSE /\ rawOut = <<>> /\ tabOut = NoOutput /\ swPc = "-"

\* setupStatusPrint, one iteration of the range over the statuses map (Go
\* iterates a map in an unspecified order)
SW_Gather ==
    /\ writer = "StatusWriter" /\ swPc = "gather"
    /\ \E p \in pending :
        IF ~statuses[p].ok
        THEN /\ swPc' = "error"
             /\ UNCHANGED <<pending, fullStatus>>
        ELSE /\ fullStatus' = fullStatus \o
                    [i \in DOMAIN statuses[p].ss |->
                        [pilot |-> p, status |-> statuses[p].ss[i]]]
             /\ pending' = pending \ {p}
             /\ swPc' = "gather"
    /\ UNCHANGED <<writer, statuses, XDSCols, drs, hasTab, rawOut, tabOut>>
    /\ UNCHANGED <<xdsVars, dfVars, vlVars, cliVars>>

\* setupStatusPrint, the sort after the loop
SW_Sort ==
    /\ writer = "StatusWriter" /\ swPc = "gather" /\ pending = {}
    /\ \E o \in sortStatuses(fullStatus) : fullStatus' = o
    /\ swPc' = "print"
    /\ UNCHANGED <<writer, statuses, XDSCols, drs, pending, hasTab, rawOut, tabOut>>
    /\ UNCHANGED <<xdsVars, dfVars, vlVars, cliVars>>

\* PrintAll: the rows are written to the tabwriter in order and flushed
SW_Print ==
    /\ writer = "StatusWriter" /\ swPc = "print"
    /\ tabOut' = [header |-> <<"NAME">> \o XDSCols \o <<"ISTIOD", "VERSION">>,
                  rows |-> [i \in DOMAIN fullStatus |-> statusPrintln(XDSCols, fullStatus[i])]]
    /\ swPc' = "done"
    /\ UNCHANGED <<writer, statuses, XDSCols, drs, pending, fullStatus, hasTab, rawOut>>
    /\ UNCHANGED <<xdsVars, dfVars, vlVars, cliVars>>

(***************************************************************************)
(* XdsStatusWriter                                                         *)
(***************************************************************************)
ClientConfigURL == "type.googleapis.com/envoy.service.status.v3.ClientConfig"

OtherURL == "type.googleapis.com/envoy.admin.v3.ConfigDump"

PerXds(kind, st) == [kind |-> kind, status |-> st]

\* an Any resource: its type URL, its bytes (Value), and what the bytes decode
\* to when they are a ClientConfig (ok = FALSE: UnmarshalTo fails)
ClientConfig(id, cfgs, bytes) ==
    [TypeUrl |-> ClientConfigURL, ok |-> TRUE, id |-> id, configs |-> cfgs, Value |-> bytes]

ResourceSet ==
    { ClientConfig("proxy-a", <<PerXds("Listener", "SYNCED"), PerXds("Cluster", "SYNCED"),
                               PerXds("Route", "STALE"), PerXds("Endpoint", "SYNCED")>>, "cc-a"),
      ClientConfig("proxy-b", <<PerXds("Cluster", "STALE"), PerXds("ScopedRoute", "SYNCED"),
                               PerXds("Cluster", "SYNCED")>>, "cc-b"),
      [TypeUrl |-> ClientConfigURL, ok |-> FALSE, id |-> "", configs |-> <<>>, Value |-> "cc-bad"],
      [TypeUrl |-> OtherURL, ok |-> TRUE, id |-> "", configs |-> <<>>, Value |-> "dump-x"],
      [TypeUrl |-> OtherURL, ok |-> TRUE, id |-> "", configs |-> <<>>, Value |-> "dump-y"] }

\* a DiscoveryResponse of controller node n; istiod names itself in
\* ControlPlane.Identifier
Responses(n) ==
    {[ControlPlane |-> [ID |-> n, Version |-> "1.10"], Resources |-> r] :
        r \in SeqsUpTo(ResourceSet, MaxResources)}

ResponseMaps ==
    UNION {{f \in [ns -> UNION {Responses(n) : n \in ns}] :
                \A n \in ns : f[n] \in Responses(n)} : ns \in SUBSET Pilots}

\* multixds.CpInfo: the identifier and version the response carries
CpInfo(dr) == [ID |-> dr.ControlPlane.ID, Info |-> [Version |-> dr.ControlPlane.Version]]

\* getSyncStatus: the last config of each kind decides
RECURSIVE getSyncStatusFrom(_, _, _)
getSyncStatusFrom(configs, i, acc) ==
    IF i > Len(configs) THEN acc
    ELSE LET c == configs[i]
             nxt == CASE c.kind = "Listener" -> [acc EXCEPT !.lds = c.status]
                      [] c.kind = "Cluster" -> [acc EXCEPT !.cds = c.status]
                      [] c.kind = "Route" -> [acc EXCEPT !.rds = c.status]
                      [] c.kind = "Endpoint" -> [acc EXCEPT !.eds = c.status]
                      [] OTHER -> acc
         IN getSyncStatusFrom(configs, i + 1, nxt)

getSyncStatus(configs) ==
    getSyncStatusFrom(configs, 1, [cds |-> "", lds |-> "", eds |-> "", rds |-> ""])

xdsWriterStatus(dr, res) ==
    LET st == getSyncStatus(res.configs)
    IN [proxyID |-> res.id, istiodID |-> CpInfo(dr).ID,
        istiodVersion |-> CpInfo(dr).Info.Version,
        clusterStatus |-> st.cds, listenerStatus |-> st.lds,
        routeStatus |-> st.rds, endpointStatus |-> st.eds]

\* XdsStatusWriter.setupStatusPrint, the inner loop over one response's
\* resources from index i on; acc = [err, full, tab, raw]
RECURSIVE setupResources(_, _, _)
setupResources(dr, i, acc) ==
    IF i > Len(dr.Resources) THEN acc
    ELSE LET res == dr.Resources[i]
         IN IF res.TypeUrl = ClientConfigURL
            THEN IF ~res.ok
                 THEN [acc EXCEPT !.err = TRUE]
                 ELSE setupResources(dr, i + 1,
                        [acc EXCEPT !.full = Append(acc.full, xdsWriterStatus(dr, res)),
                                    !.tab = TRUE])
            ELSE setupResources(dr, i + 1,
                    [acc EXCEPT !.raw = acc.raw \o [k \in DOMAIN dr.Resources |-> dr.Resources[k].Value],
                                !.full = <<>>])

\* setupStatusPrint, the sort.Slice call by proxyID
sortXdsStatuses(full) == SortedOrders(full, [i \in DOMAIN full |-> full[i].proxyID])

\* the row xdsStatusPrintln writes
xdsStatusPrintln(st) ==
    <<st.proxyID, st.clusterStatus, st.listenerStatus, st.endpointStatus,
      st.routeStatus, st.istiodID, st.istiodVersion>>

\* setupStatusPrint, one iteration of the range over the responses map
XW_Gather ==
    /\ writer = "XdsStatusWriter" /\ swPc = "gather"
    /\ \E n \in pending :
        LET r == setupResources(drs[n], 1,
                    [err |-> FALSE, full |-> fullStatus, tab |-> hasTab, raw |-> rawOut])
        IN /\ rawOut' = r.raw
           /\ IF r.err
              THEN /\ swPc' = "error"
                   /\ UNCHANGED <<pending, fullStatus, hasTab>>
              ELSE /\ \E o \in sortXdsStatuses(r.full) : fullStatus' = o
                   /\ hasTab' = r.tab
                   /\ pending' = pending \ {n}
                   /\ swPc' = IF pending' = {} THEN "print" ELSE "gather"
    /\ UNCHANGED <<writer, statuses, XDSCols, drs, tabOut>>
    /\ UNCHANGED <<xdsVars, dfVars, vlVars, cliVars>>

\* PrintAll: rows are written to the tabwriter and flushed when there is one
XW_Print ==
    /\ writer = "XdsStatusWriter"
    /\ swPc = "print" \/ (swPc = "gather" /\ pending = {})
    /\ tabOut' = IF hasTab
                 THEN [header |-> <<"NAME", "CDS", "LDS", "EDS", "RDS", "ISTIOD", "VERSION">>,
                       rows |-> [i \in DOMAIN fullStatus |-> xdsStatusPrintln(fullStatus[i])]]
                 ELSE NoOutput
    /\ swPc' = "done"
    /\ UNCHANGED <<writer, statuses, XDSCols, drs, pending, fullStatus, hasTab, rawOut>>
    /\ UNCHANGED <<xdsVars, dfVars, vlVars, cliVars>>

(***************************************************************************)
(* diffWalk                                                                *)
(***************************************************************************)
\* Decoded generic values (config.ToMap): map[string]interface{},
\* []interface{}, string, other scalars, nil.  Text is a sequence of tokens.
Nil == [k |-> "nil"]

Str(v) == [k |-> "str", v |-> v]

Num(v) == [k |-> "num", v |-> v]

Map(m) == [k |-> "map", m |-> m]

List(e) == [k |-> "seq", e |-> e]

KeyX == <<"x">>

KeyYZ == <<"y", ".", "z">>

Keys == {KeyX, KeyYZ}

Scalars == {Nil, Str(<<"a">>), Str(<<"b">>), Num(<<"1">>)}

RECURSIVE Trees(_)
Trees(d) ==
    IF d = 0 THEN Scalars
    ELSE Scalars \cup {Map([key \in {} |-> Nil]), List(<<>>)}
         \cup {Map([key \in {KeyX} |-> t]) : t \in Trees(d - 1)}
         \cup {Map([key \in Keys |-> IF key = KeyX THEN t ELSE Str(<<"a">>)]) : t \in Trees(d - 1)}
         \cup {List(<<t>>) : t \in Trees(d - 1)}
         \cup {List(<<t, Str(<<"a">>)>>) : t \in Trees(d - 1)}

KeyOrders == {<<KeyX, KeyYZ>>, <<KeyYZ, KeyX>>}

\* util.PathSeparator and util.EscapedPathSeparator
PathSeparator == "."

EscapedPathSeparator == <<"\\", ".">>

\* strings.ReplaceAll(component, PathSeparator, EscapedPathSeparator)
RECURSIVE ReplaceAllSep(_)
ReplaceAllSep(component) ==
    IF component = <<>> THEN <<>>
    ELSE (IF Head(component) = PathSeparator THEN EscapedPathSeparator ELSE <<Head(component)>>)
         \o ReplaceAllSep(Tail(component))

\* plausible slip: the key is concatenated as it is
pathComponent_Raw(component) == component

pathComponent(component) ==
    IF PathSeparator \notin Range(component) THEN component
    ELSE ReplaceAllSep(component)

\* interface comparison v != orig for a scalar v: equal only when the dynamic
\* types and the values agree
SameScalar(v, orig) == v.k = orig.k /\ (v.k = "nil" \/ v.v = orig.v)

\* fmt.Sprintf("%q", v) for a string without quotes or escapes
Quoted(v) == <<"\"">> \o v \o <<"\"">>

\* fmt.Sprintf("%v", v) for a non-string scalar
DefaultText(v) == IF v.k = "nil" THEN <<"<nil>">> ELSE v.v

iopDiff(path, value) == [Path |-> path, Value |-> value]

\* plausible slip: the test on the baseline being nil is dropped
scalarDiff_NoNilTest(path, v, orig) ==
    IF ~SameScalar(v, orig)
    THEN <<iopDiff(path, IF v.k = "str" THEN Quoted(v.v) ELSE DefaultText(v))>>
    ELSE <<>>

\* plausible slip: the test on the values differing is dropped
scalarDiff_NoEqTest(path, v, orig) ==
    IF orig # Nil
    THEN <<iopDiff(path, IF v.k = "str" THEN Quoted(v.v) ELSE DefaultText(v))>>
    ELSE <<>>

\* plausible slip: a string is rendered with %v
scalarDiff_Unquoted(path, v, orig) ==
    IF ~SameScalar(v, orig) /\ orig # Nil
    THEN <<iopDiff(path, IF v.k = "str" THEN v.v ELSE DefaultText(v))>>
    ELSE <<>>

\* diffWalk, the string case and the default case
scalarDiff(path, v, orig) ==
    IF ~SameScalar(v, orig) /\ orig # Nil
    THEN <<iopDiff(path, IF v.k = "str" THEN Quoted(v.v) ELSE DefaultText(v))>>
    ELSE <<>>

\* the keys of m in the order the range statement visits them
KeysInOrder(m, order) == SelectSeq(order, LAMBDA key : key \in DOMAIN m)

Walked(recs) == [panic |-> FALSE, recs |-> recs]

Panicked == [panic |-> TRUE, recs |-> <<>>]

\* diffWalk: the result is its record list, or a run-time panic (index out of
\* range on typedOrig[idx]); the error result is nil on every path
RECURSIVE diffWalk(_, _, _, _, _)
RECURSIVE diffWalkMap(_, _, _, _, _, _, _)
RECURSIVE diffWalkSeq(_, _, _, _, _, _)

diffWalkMap(path, separator, v, typedOrig, order, ks, accum) ==
    IF ks = <<>> THEN Walked(accum)
    ELSE LET key == Head(ks)
             childwalk == diffWalk(path \o separator \o pathComponent(key), <<PathSeparator>>,
                                   v[key],
                                   IF key \in DOMAIN typedOrig THEN typedOrig[key] ELSE Nil,
                                   order)
         IN IF childwalk.panic THEN Panicked
            ELSE diffWalkMap(path, separator, v, typedOrig, order, Tail(ks), accum \o childwalk.recs)

diffWalkSeq(path, v, typedOrig, order, idx, accum) ==
    IF idx >= Len(v) THEN Walked(accum)
    ELSE IF idx >= Len(typedOrig) THEN Panicked
    ELSE LET indexwalk == diffWalk(path \o <<"[", ToString(idx), "]">>, <<PathSeparator>>,
                                   v[idx + 1], typedOrig[idx + 1], order)
         IN IF indexwalk.panic THEN Panicked
            ELSE diffWalkSeq(path, v, typedOrig, order, idx + 1, accum \o indexwalk.recs)

diffWalk(path, separator, obj, orig, order) ==
    CASE obj.k = "map" ->
            IF orig.k = "map"
            THEN diffWalkMap(path, separator, obj.m, orig.m, order, KeysInOrder(obj.m, order), <<>>)
            ELSE Walked(<<>>)
      [] obj.k = "seq" ->
            IF orig.k = "seq"
            THEN diffWalkSeq(path, obj.e, orig.e, order, 0, <<>>)
            ELSE Walked(<<>>)
      [] OTHER -> Walked(scalarDiff(path, obj, orig))

NotWalked == [done |-> FALSE, panic |-> FALSE, recs |-> <<>>]

DfIdle == dfObj = Nil /\ dfOrig = Nil /\ dfOrder = <<>> /\ dfRes = NotWalked

\* getDiffs: diffWalk("", "", installed, base)
DiffWalkCall ==
    /\ ~dfRes.done
    /\ dfOrder # <<>>
    /\ LET r == diffWalk(<<>>, <<>>, dfObj, dfOrig, dfOrder)
       IN dfRes' = [done |-> TRUE, panic |-> r.panic, recs |-> r.recs]
    /\ UNCHANGED <<dfObj, dfOrig, dfOrder>>
    /\ UNCHANGED <<xdsVars, swVars, vlVars, cliVars>>

(***************************************************************************)
(* Validate: Go values as reflection sees them                             *)
(***************************************************************************)
GNil == [k |-> "nil"]

GStr(v) == [k |-> "string", v |-> v]

GInt(n) == [k |-> "int", n |-> n]

\* a struct value; f is the sequence of its fields
GStruct(f) == [k |-> "struct", f |-> f]

\* a non-nil pointer and the nil pointer
GPtr(p) == [k |-> "ptr", isnil |-> FALSE, p |-> p]

GNilPtr == [k |-> "ptr", isnil |-> TRUE, p |-> GNil]

\* a map (keys are strings) and the nil map
GMap(m) == [k |-> "map", isnil |-> FALSE, m |-> m]

GNilMap == [k |-> "map", isnil |-> TRUE, m |-> [key \in {} |-> GNil]]

GSlice(s) == [k |-> "slice", s |-> s]

\* a reflect.Value handed over where an interface{} is expected
RValue(r) == [k |-> "reflect.Value", r |-> r]

\* a struct field: its name, its json tag, whether its static type is an
\* interface, and its value
Field(name, json, iface, val) == [Name |-> name, json |-> json, iface |-> iface, val |-> val]

\* structElems.Type().Field(i).Type.Kind()
FieldKind(fld) == IF fld.iface THEN "interface" ELSE fld.val.k

\* what a helper of package util looks at: the value itself, or the value a
\* reflect.Value holds
Held(value) == IF value.k = "reflect.Value" THEN value.r ELSE value

\* util.IsStruct
IsStruct(value) == Held(value).k = "struct"

\* util.IsPtr
IsPtr(value) == Held(value).k = "ptr"

\* util.IsValueNil: nil, or a nil pointer, map or slice
IsValueNil(value) ==
    \/ Held(value).k = "nil"
    \/ Held(value).k \in {"ptr", "map"} /\ Held(value).isnil

\* util.IsEmptyString
IsEmptyString(value) ==
    \/ Held(value).k = "nil"
    \/ Held(value).k = "string" /\ Held(value).v = ""

\* reflect.Value.Elem of a pointer; the zero Value for a nil pointer
Elem(ptr) == IF ptr.isnil THEN [k |-> "invalid"] ELSE ptr.p

\* util.IsNilOrInvalidValue
IsNilOrInvalidValue(v) == v.k = "invalid" \/ IsValueNil(v)

(***************************************************************************)
(* Validate: paths, rule table, rule functions                             *)
(***************************************************************************)
\* util.Path.String: the segments joined by the path separator
RECURSIVE PathString(_)
PathString(path) ==
    IF path = <<>> THEN <<>>
    ELSE IF Len(path) = 1 THEN path[1]
    ELSE path[1] \o <<PathSeparator>> \o PathString(Tail(path))

\* indexPathForSlice: fmt.Sprintf("%s[%d]", fieldName, i)
indexPathForSlice(fieldName, i) == <<fieldName, "[", ToString(i), "]">>

LowerFirst(tok) ==
    CASE tok = "Hub" -> "hub"
      [] tok = "Tag" -> "tag"
      [] tok = "Components" -> "components"
      [] tok = "IngressGateways" -> "ingressGateways"
      [] tok = "Name" -> "name"
      [] tok = "Labels" -> "labels"
      [] tok = "Args" -> "args"
      [] tok = "Internal" -> "internal"
      [] OTHER -> tok

\* util.ToYAMLPathString: the first letter of every path node in lower case
ToYAMLPathString(pstr) ==
    [i \in DOMAIN pstr |->
        IF i = 1 \/ pstr[i - 1] = PathSeparator THEN LowerFirst(pstr[i]) ELSE pstr[i]]

\* a path node with its index replaced by the wildcard
Wildcarded(pstr) ==
    [i \in DOMAIN pstr |->
        IF i > 1 /\ i < Len(pstr) /\ pstr[i - 1] = "[" /\ pstr[i + 1] = "]" THEN "*" ELSE pstr[i]]

\* getValidationFuncForPath: the rule registered for the literal path, else
\* the rule registered for its wildcard pattern, else none
getValidationFuncForPath(vals, path) ==
    LET pstr == PathString(path)
    IN IF pstr \in DOMAIN vals THEN vals[pstr]
       ELSE IF Wildcarded(pstr) \in DOMAIN vals THEN vals[Wildcarded(pstr)]
       ELSE "none"

\* DefaultValidations (the entries Values and MeshConfig hand the subtree to
\* validators of other packages and are left out with their fields)
DefaultValidations ==
    [pat \in {<<"Hub">>, <<"Tag">>,
              <<"Components", ".", "IngressGateways", "[", "*", "]", ".", "Name">>,
              <<"Components", ".", "EgressGateways", "[", "*", "]", ".", "Name">>} |->
        CASE pat = <<"Hub">> -> "validateHub"
          [] pat = <<"Tag">> -> "validateTag"
          [] OTHER -> "validateGatewayName"]

\* a caller's own table (Validate is public): rules on a map entry, on slice
\* elements and on a field tagged json:"-"
CustomValidations ==
    [pat \in DOMAIN DefaultValidations \cup
             {<<"Labels", ".", "app">>, <<"Args", "[", "*", "]">>, <<"Internal">>} |->
        IF pat \in DOMAIN DefaultValidations THEN DefaultValidations[pat]
        ELSE IF pat = <<"Labels", ".", "app">> THEN "validateGatewayName"
        ELSE "validateTag"]

Err(msg, pstr) == [msg |-> msg, path |-> pstr]

\* fmt.Sprint(val); a reflect.Value prints as the value it holds
Sprint(val) ==
    CASE Held(val).k = "string" -> Held(val).v
      [] Held(val).k = "int" -> Held(val).n
      [] OTHER -> "<composite>"

\* the texts each grammar accepts in full, among the texts of the model
Matches(regexp, text) ==
    CASE regexp = "ObjectNameRegexp" -> text \in {"valid-name", "app-1"}
      [] regexp = "ReferenceRegexp" -> text \in {"docker.io/istio", "valid-name", "app-1"}
      [] regexp = "TagRegexp" -> text \in {"1.1.0", "valid-name", "app-1", "7"}
      [] OTHER -> FALSE

\* validateWithRegex: one error unless the grammar matches the whole text
validateWithRegex(path, val, regexp) ==
    IF Matches(regexp, Sprint(val)) THEN <<>> ELSE <<Err("invalid value", PathString(path))>>

validateHub(path, val) == validateWithRegex(path, val, "ReferenceRegexp")

validateTag(path, val) == validateWithRegex(path, val, "TagRegexp")

validateGatewayName(path, val) ==
    IF val.k # "string" THEN <<Err("bad type", PathString(path))>>
    ELSE IF val.v = "" THEN <<>>
    ELSE validateWithRegex(path, val, "ObjectNameRegexp")

\* vf(path, val) for the rule function named vf
ApplyRule(vf, path, val) ==
    CASE vf = "validateHub" -> validateHub(path, val)
      [] vf = "validateTag" -> validateTag(path, val)
      [] vf = "validateGatewayName" -> validateGatewayName(path, val)
      [] OTHER -> <<>>

(***************************************************************************)
(* Validate and validateLeaf                                               *)
(***************************************************************************)
\* What a call returns: its errors, and for the claims two records of what it
\* did: the rule functions it invoked (calls) and the number of increments of
\* metrics.CRValidationFailure (incs).
Outcome(errs, calls, incs) == [errs |-> errs, calls |-> calls, incs |-> incs]

NoErrors == Outcome(<<>>, <<>>, 0)

\* util.AppendErrs, with the records of both sides joined
AppendErrs(a, b) == Outcome(a.errs \o b.errs, a.calls \o b.calls, a.incs + b.incs)

RuleCall(vf, path, val) == [rule |-> vf, path |-> PathString(path), val |-> val]

\* plausible slip: the test for an empty value is missing
validateLeaf_NoEmptyTest(vals, path, val, cr) ==
    LET vf == getValidationFuncForPath(vals, path)
    IN IF vf = "none" THEN NoErrors
       ELSE Outcome(ApplyRule(vf, path, val), <<RuleCall(vf, path, val)>>, 0)

validateLeaf(vals, path, val, cr) ==
    LET pstr == PathString(path)
    IN IF IsValueNil(val) \/ IsEmptyString(val)
       THEN IF cr /\ pstr \in requiredValues
            THEN Outcome(<<Err("required but not set", ToYAMLPathString(pstr))>>, <<>>, 0)
            ELSE NoErrors
       ELSE LET vf == getValidationFuncForPath(vals, path)
            IN IF vf = "none" THEN NoErrors
               ELSE Outcome(ApplyRule(vf, path, val), <<RuleCall(vf, path, val)>>, 0)

\* plausible slip: a value that is no pointer is skipped like a struct
checkRoot_SkipNonPtr(value) ==
    IF value.k = "nil" THEN "nil"
    ELSE IF ~IsPtr(value) THEN "skip"
    ELSE IF ~IsStruct(Elem(value)) THEN "expected struct"
    ELSE "walk"

\* Validate, lines 75-94: what the tests on the root decide
checkRoot(value) ==
    IF value.k = "nil" THEN "nil"
    ELSE IF IsStruct(value) THEN "skip"
    ELSE IF ~IsPtr(value) THEN "expected ptr"
    ELSE IF ~IsStruct(Elem(value)) THEN "expected struct"
    ELSE IF IsNilOrInvalidValue(Elem(value)) THEN "nil"
    ELSE "walk"

RECURSIVE Validate(_, _, _, _)
RECURSIVE validateFields(_, _, _, _, _)
RECURSIVE validateFields_StopAtError(_, _, _, _, _)
RECURSIVE validateField(_, _, _, _)
RECURSIVE validateMapKeys(_, _, _, _, _)
RECURSIVE validateSlice(_, _, _, _, _)

\* the range over fieldValue.MapKeys(), ks the keys in the order visited
validateMapKeys(vals, newPath, m, ks, cr) ==
    IF ks = <<>> THEN NoErrors
    ELSE AppendErrs(validateLeaf(vals, Append(newPath, Head(ks)), RValue(m[Head(ks)]), cr),
                    validateMapKeys(vals, newPath, m, Tail(ks), cr))

\* the loop over the elements of a slice field, from 0-based index i on
validateSlice(vals, path, fld, i, cr) ==
    IF i >= Len(fld.val.s) THEN NoErrors
    ELSE LET newValue == fld.val.s[i + 1]
             newPath == Append(path, indexPathForSlice(fld.Name, i))
             this == IF IsStruct(newValue) \/ IsPtr(newValue)
                     THEN Validate(vals, newValue, newPath, cr)
                     ELSE validateLeaf(vals, newPath, newValue, cr)
         IN AppendErrs(this, validateSlice(vals, path, fld, i + 1, cr))

\* one iteration of the loop over the fields: the switch on the field's kind
validateField(vals, path, fld, cr) ==
    LET newPath == Append(path, <<fld.Name>>)
    IN IF fld.json = "-" THEN NoErrors
       ELSE CASE FieldKind(fld) = "struct" -> Validate(vals, GPtr(fld.val), newPath, cr)
              [] FieldKind(fld) = "map" ->
                    AppendErrs(validateLeaf(vals, newPath, fld.val, cr),
                               validateMapKeys(vals, newPath, fld.val.m,
                                    SelectSeq(mapOrder, LAMBDA key : key \in DOMAIN fld.val.m), cr))
              [] FieldKind(fld) = "slice" -> validateSlice(vals, path, fld, 0, cr)
              [] FieldKind(fld) = "ptr" ->
                    IF IsNilOrInvalidValue(Elem(fld.val)) THEN NoErrors
                    ELSE IF Elem(fld.val).k = "struct"
                    THEN Validate(vals, fld.val, newPath, cr)
                    ELSE validateLeaf(vals, newPath, RValue(fld.val), cr)
              [] OTHER -> validateLeaf(vals, newPath, fld.val, cr)

\* plausible slip: the loop returns at the first field that reports errors
validateFields_StopAtError(vals, fields, i, path, cr) ==
    IF i > Len(fields) THEN NoErrors
    ELSE LET this == validateField(vals, path, fields[i], cr)
         IN IF this.errs # <<>> THEN this
            ELSE AppendErrs(this, validateFields_StopAtError(vals, fields, i + 1, path, cr))

\* Validate, lines 96-140: the loop over the fields from field i on
validateFields(vals, fields, i, path, cr) ==
    IF i > Len(fields) THEN NoErrors
    ELSE AppendErrs(validateField(vals, path, fields[i], cr),
                    validateFields(vals, fields, i + 1, path, cr))

Validate(vals, value, path, cr) ==
    LET root == checkRoot(value)
    IN CASE root \in {"nil", "skip"} -> NoErrors
         [] root \in {"expected ptr", "expected struct"} ->
                Outcome(<<Err(root, PathString(path))>>, <<>>, 1)
         [] OTHER ->
                LET r == validateFields(vals, Elem(value).f, 1, path, cr)
                IN IF Len(r.errs) > 0 THEN [r EXCEPT !.incs = r.incs + 1] ELSE r

(***************************************************************************)
(* Validate: inputs                                                        *)
(***************************************************************************)
GatewayNames == {"", "valid-name", "Invalid_Name!"}

GatewaySpec(name) ==
    GStruct(<<Field("Name", "name", FALSE, GStr(name)),
              Field("XXX_sizecache", "-", FALSE, GInt("7"))>>)

\* gateways held by value in the slice (Validate is public: the element type
\* is the caller's)
ByValueGateways == {GatewaySpec("Invalid_Name!"), GatewaySpec("valid-name")}

\* Components: unset, or a set spec with its ingress gateways
ComponentChoices ==
    {GNilPtr} \cup
    {GPtr(GStruct(<<Field("IngressGateways", "ingressGateways", FALSE,
                          GSlice([i \in DOMAIN names |-> GPtr(GatewaySpec(names[i]))]))>>)) :
        names \in SeqsUpTo(GatewayNames, MaxElems)}
    \cup {GPtr(GStruct(<<Field("IngressGateways", "ingressGateways", FALSE, GSlice(<<gw>>))>>)) :
            gw \in ByValueGateways}

LabelChoices ==
    {GNilMap,
     GMap([key \in {<<"app">>} |-> GStr("")]),
     GMap([key \in {<<"app">>, <<"tier">>} |-> IF key = <<"app">> THEN GStr("app-1") ELSE GStr("")])}

ArgChoices ==
    {GSlice(<<>>), GSlice(<<GStr("1.1.0"), GStr("bad tag!")>>), GSlice(<<GStr("")>>),
     GSlice(<<GPtr(GStr("1.1.0"))>>)}

\* a spec struct in the shape of IstioOperatorSpec, with a map of scalars, a
\* slice of scalars and a field tagged json:"-" added
SpecStructs ==
    {GStruct(<<Field("Hub", "hub", FALSE, GStr(hub)),
               Field("Tag", "tag", TRUE, tag),
               Field("Internal", "-", FALSE, GStr("bad hub!")),
               Field("Components", "components", FALSE, comps),
               Field("Labels", "labels", FALSE, labels),
               Field("Args", "args", FALSE, args)>>) :
        hub \in {"", "docker.io/istio", "bad hub!"},
        tag \in {GNil, GStr("bad tag!")},
        comps \in ComponentChoices,
        labels \in LabelChoices,
        args \in ArgChoices}

\* the roots handed to Validate: nil, values that are no pointer, pointers to
\* something that is no struct, and pointers to a spec struct
SomeSpec == CHOOSE st \in SpecStructs : st.f[1].val = GStr("bad hub!")

RootChoices ==
    {GNil, GStr("docker.io/istio"), GInt("7"), GMap([key \in {<<"app">>} |-> GStr("bad hub!")]),
     GPtr(GStr("bad hub!")), GPtr(GSlice(<<GStr("bad tag!")>>)), SomeSpec}
    \cup {GPtr(st) : st \in SpecStructs}

\* requiredValues is a package variable that validateLeaf reads on every call;
\* the table declared in the package is the empty one, the others mark paths
\* of the spec struct
RequiredChoices ==
    {{}, {<<"Hub">>, <<"Components">>, <<"Labels", ".", "tier">>},
     {<<"Tag">>, <<"Labels">>, <<"Components", ".", "IngressGateways", "[", "0", "]", ".", "Name">>}}

MapOrders == {<<<<"app">>, <<"tier">>>>, <<<<"tier">>, <<"app">>>>}

NotValidated == [done |-> FALSE, errs |-> <<>>, calls |-> <<>>, incs |-> 0]

VlIdle ==
    /\ structPtr = GNil /\ validations = DefaultValidations /\ requiredValues = {}
    /\ checkRequired = FALSE /\ mapOrder = <<>> /\ vlRes = NotValidated

\* a call Validate(validations, structPtr, nil, checkRequired)
ValidateCall ==
    /\ ~vlRes.done
    /\ mapOrder # <<>>
    /\ LET r == Validate(validations, structPtr, <<>>, checkRequired)
       IN vlRes' = [done |-> TRUE, errs |-> r.errs, calls |-> r.calls, incs |-> r.incs]
    /\ UNCHANGED <<structPtr, validations, requiredValues, checkRequired, mapOrder>>
    /\ UNCHANGED <<xdsVars, swVars, dfVars, cliVars>>

(***************************************************************************)
(* sidecar-bootstrap: bundles                                              *)
(***************************************************************************)
\* hosts aliased to the ingress gateway by one bundle
MaxHosts == 2

\* strings.Join(words, sep), the words and the result being token sequences
RECURSIVE Join(_, _)
Join(words, sep) ==
    IF words = <<>> THEN <<>>
    ELSE IF Len(words) = 1 THEN words[1]
    ELSE words[1] \o <<sep>> \o Join(Tail(words), sep)

offlineProxyConfigDirEnv == "VM_FILES_DIR"

defaultProxyConfigDir == <<"/tmp/istio-proxy">>

\* fmt.Sprintf(`"${%s}"`, offlineProxyConfigDirEnv)
OfflineDir == <<"\"${", offlineProxyConfigDirEnv, "}\"">>

BootstrapBundle(env, ca, token, name, image, args, hosts, addr) ==
    [IstioProxyEnvironment |-> env, IstioCaCert |-> ca, ServiceAccountToken |-> token,
     IstioProxyContainerName |-> name, IstioProxyImage |-> image,
     IstioProxyArgs |-> args, IstioProxyHosts |-> hosts,
     IstioIngressGatewayAddress |-> addr]

fileToCopy(name, dir, perm, data) == [name |-> name, dir |-> dir, perm |-> perm, data |-> data]

cmdToExec(cmd, required) == [cmd |-> cmd, required |-> required]

\* processBundle, the loop appending the --add-host flags
RECURSIVE addHosts(_, _, _)
addHosts(cmd, hosts, addr) ==
    IF hosts = <<>> THEN cmd
    ELSE addHosts(cmd \o <<<<"--add-host">>, <<Head(hosts), ":", addr>>>>, Tail(hosts), addr)

\* plausible slip: the token file gets the permissions of the config files
filePerms_AllConfig == [configFilePerm |-> "0644", secretFilePerm |-> "0644"]

filePerms == [configFilePerm |-> "0644", secretFilePerm |-> "0640"]

\* plausible slip: only the first alias is mapped
hostFlags_FirstOnly(hosts, addr) ==
    addHosts(<<>>, IF hosts = <<>> THEN <<>> ELSE <<Head(hosts)>>, addr)

hostFlags(hosts, addr) == addHosts(<<>>, hosts, addr)

processBundle(b, dir) ==
    LET files == <<fileToCopy("sidecar.env", dir, filePerms.configFilePerm, b.IstioProxyEnvironment),
                   fileToCopy("istio-ca.pem", dir, filePerms.configFilePerm, b.IstioCaCert),
                   fileToCopy("istio-token", dir, filePerms.secretFilePerm, b.ServiceAccountToken)>>
        cmd == <<<<"docker">>, <<"run">>, <<"-d">>, <<"--name">>, <<b.IstioProxyContainerName>>,
                 <<"--restart">>, <<"unless-stopped">>, <<"--network">>, <<"host">>,
                 <<"-v">>, dir \o <<"/istio-ca.pem", ":", "/var/run/secrets/istio/root-cert.pem">>,
                 <<"-v">>, dir \o <<"/istio-token", ":", "/var/run/secrets/tokens/istio-token">>,
                 <<"--env-file">>, dir \o <<"/sidecar.env">>>>
               \o hostFlags(b.IstioProxyHosts, b.IstioIngressGatewayAddress)
               \o <<<<b.IstioProxyImage>>>>
               \o [i \in DOMAIN b.IstioProxyArgs |-> <<b.IstioProxyArgs[i]>>]
        commands == <<cmdToExec(<<"docker", " ", "rm", " ", "--force", " ", b.IstioProxyContainerName>>,
                                FALSE),
                      cmdToExec(Join(cmd, " "), TRUE)>>
    IN [filesToCopy |-> files, cmdsToExec |-> commands]

NoItems == [filesToCopy |-> <<>>, cmdsToExec |-> <<>>]

HostAliases == {"istiod.istio-system.svc", "zipkin.istio-system.svc"}

Bundles ==
    {BootstrapBundle("env-blob", "ca-cert", "sa-token", "my-app-istio-proxy", "proxyv2:1.10",
                     args, hosts, "10.0.0.7") :
        args \in {<<>>, <<"proxy", "sidecar">>},
        hosts \in SeqsUpTo(HostAliases, MaxHosts)}

NoBundle ==
    BootstrapBundle("", "", "", "", "", <<>>, <<>>, "")

\* what the injected callbacks (write, or the SSH client's Dial, Exec and
\* Copy) fail on: file names, "dial", "mkdir", and the commands "rm" and "run"
FailPoints == {"dial", "mkdir", "sidecar.env", "istio-ca.pem", "istio-token",
               "start-istio-proxy.sh", "rm", "run"}

NotRun == [done |-> FALSE, err |-> "nil"]

BbIdle ==
    /\ bbOp = "-" /\ bundle = NoBundle /\ remoteDir = <<>> /\ items = NoItems
    /\ failing = {} /\ writes = <<>> /\ startIstioProxy = FALSE /\ sshLog = <<>>
    /\ bbRes = NotRun

\* a call processBundle(bundle, remoteDir)
ProcessBundleCall ==
    /\ bbOp = "processBundle" /\ ~bbRes.done
    /\ items' = processBundle(bundle, remoteDir)
    /\ bbRes' = [done |-> TRUE, err |-> "nil"]
    /\ UNCHANGED <<bbOp, bundle, remoteDir, failing, writes, startIstioProxy, sshLog>>
    /\ UNCHANGED <<xdsVars, swVars, dfVars, vlVars, argVars, gwVars, rdVars, acVars, pwVars, wkVars, rlVars>>

\* the start-up script: the licence header, the config-directory variable,
\* then the commands, each after its set -e or set +e line
RECURSIVE scriptCommands(_)
\* plausible slip: the flag is tested the wrong way round
scriptCommands_Inverted(cmds) ==
    IF cmds = <<>> THEN <<>>
    ELSE <<IF Head(cmds).required THEN "set +e" ELSE "set -e", "\n">>
         \o Head(cmds).cmd \o <<"\n", "\n">> \o scriptCommands(Tail(cmds))

scriptCommands(cmds) ==
    IF cmds = <<>> THEN <<>>
    ELSE <<IF Head(cmds).required THEN "set -e" ELSE "set +e", "\n">>
         \o Head(cmds).cmd \o <<"\n", "\n">> \o scriptCommands(Tail(cmds))

scriptContent(cmds) ==
    <<"#!/usr/bin/env bash", "\n", "SCRIPT_DIR=$( cd \"$(dirname \"$0\")\" >/dev/null 2>&1 ; pwd -P )",
      "\n", "BASE_DIR=\"${SCRIPT_DIR}/..\"", "\n",
      offlineProxyConfigDirEnv, "=", "\"${BASE_DIR}/etc\"", "\n", "\n">>
    \o scriptCommands(cmds)

\* the writes writeBootstrapBundle asks for, in order
bundleWrites(its) ==
    [i \in DOMAIN its.filesToCopy |->
        [filename |-> <<"etc", "/", its.filesToCopy[i].name>>,
         name |-> its.filesToCopy[i].name,
         perm |-> its.filesToCopy[i].perm,
         content |-> its.filesToCopy[i].data]]
    \o <<[filename |-> <<"bin", "/", "start-istio-proxy.sh">>,
          name |-> "start-istio-proxy.sh",
          perm |-> "0755",
          content |-> scriptContent(its.cmdsToExec)]>>

\* plausible slip: the error of a write is dropped and the loop goes on
writeUntilError_Ignoring(ws, i, log) ==
    [log |-> [k \in DOMAIN ws |-> [filename |-> ws[k].filename, perm |-> ws[k].perm,
                                   content |-> ws[k].content]],
     err |-> "nil"]

\* the write callback is invoked until one invocation fails
RECURSIVE writeUntilError(_, _, _)
writeUntilError(ws, i, log) ==
    IF i > Len(ws) THEN [log |-> log, err |-> "nil"]
    ELSE LET w == [filename |-> ws[i].filename, perm |-> ws[i].perm, content |-> ws[i].content]
         IN IF ws[i].name \in failing
            THEN [log |-> Append(log, w), err |-> ws[i].name]
            ELSE writeUntilError(ws, i + 1, Append(log, w))

\* a call writeBootstrapBundle(bundle, write)
WriteBootstrapBundleCall ==
    /\ bbOp = "writeBootstrapBundle" /\ ~bbRes.done
    /\ LET its == processBundle(bundle, OfflineDir)
           r == writeUntilError(bundleWrites(its), 1, <<>>)
       IN /\ items' = its
          /\ writes' = r.log
          /\ bbRes' = [done |-> TRUE, err |-> r.err]
    /\ UNCHANGED <<bbOp, bundle, remoteDir, failing, startIstioProxy, sshLog>>
    /\ UNCHANGED <<xdsVars, swVars, dfVars, vlVars, argVars, gwVars, rdVars, acVars, pwVars, wkVars, rlVars>>

Exec(cmd) == [op |-> "Exec", cmd |-> cmd]

Copy(data, path, perm) == [op |-> "Copy", data |-> data, path |-> path, perm |-> perm]

\* copyBootstrapBundle, the loop over the files: the directory is made once
RECURSIVE copyFiles(_, _, _, _)
\* plausible slip: the directory is made before every copy
copyFiles_MkdirEach(files, i, dirs, log) ==
    IF i > Len(files) THEN [log |-> log, err |-> "nil"]
    ELSE LET file == files[i]
             log1 == Append(log, Exec(<<"mkdir -p ">> \o file.dir))
         IN IF "mkdir" \in failing THEN [log |-> log1, err |-> "mkdir"]
            ELSE LET log2 == Append(log1, Copy(file.data, file.dir \o <<"/", file.name>>, file.perm))
                 IN IF file.name \in failing THEN [log |-> log2, err |-> file.name]
                    ELSE copyFiles(files, i + 1, dirs, log2)

copyFiles(files, i, dirs, log) ==
    IF i > Len(files) THEN [log |-> log, err |-> "nil"]
    ELSE LET file == files[i]
             mk == file.dir \notin dirs
             log1 == IF mk THEN Append(log, Exec(<<"mkdir -p ">> \o file.dir)) ELSE log
         IN IF mk /\ "mkdir" \in failing THEN [log |-> log1, err |-> "mkdir"]
            ELSE LET log2 == Append(log1, Copy(file.data, file.dir \o <<"/", file.name>>, file.perm))
                 IN IF file.name \in failing THEN [log |-> log2, err |-> file.name]
                    ELSE copyFiles(files, i + 1, dirs \cup {file.dir}, log2)

\* the failure point of a command of the bundle
CmdPoint(cmds, i) == IF i = 1 THEN "rm" ELSE "run"

\* plausible slip: every failing command aborts
execCommands_AllRequired(cmds, i, log) ==
    IF "rm" \in failing /\ Len(cmds) >= 1
    THEN [log |-> Append(log, Exec(cmds[1].cmd)), err |-> "rm"]
    ELSE IF "run" \in failing /\ Len(cmds) >= 2
    THEN [log |-> log \o <<Exec(cmds[1].cmd), Exec(cmds[2].cmd)>>, err |-> "run"]
    ELSE [log |-> log \o [k \in DOMAIN cmds |-> Exec(cmds[k].cmd)], err |-> "nil"]

\* copyBootstrapBundle, the loop over the commands
RECURSIVE execCommands(_, _, _)
execCommands(cmds, i, log) ==
    IF i > Len(cmds) THEN [log |-> log, err |-> "nil"]
    ELSE LET log1 == Append(log, Exec(cmds[i].cmd))
         IN IF CmdPoint(cmds, i) \in failing /\ cmds[i].required
            THEN [log |-> log1, err |-> CmdPoint(cmds, i)]
            ELSE execCommands(cmds, i + 1, log1)

copyBootstrapBundle(its) ==
    IF "dial" \in failing THEN [log |-> <<[op |-> "Dial"]>>, err |-> "dial"]
    ELSE LET c == copyFiles(its.filesToCopy, 1, {}, <<[op |-> "Dial"]>>)
             e == IF c.err # "nil" THEN c
                  ELSE IF startIstioProxy THEN execCommands(its.cmdsToExec, 1, c.log)
                  ELSE c
         IN [log |-> Append(e.log, [op |-> "Close"]), err |-> e.err]

\* a call copyBootstrapBundle(sshConfig, ssh, processBundle(bundle, remoteDir))
CopyBootstrapBundleCall ==
    /\ bbOp = "copyBootstrapBundle" /\ ~bbRes.done
    /\ LET its == processBundle(bundle, remoteDir)
           r == copyBootstrapBundle(its)
       IN /\ items' = its
          /\ sshLog' = r.log
          /\ bbRes' = [done |-> TRUE, err |-> r.err]
    /\ UNCHANGED <<bbOp, bundle, remoteDir, failing, writes, startIstioProxy>>
    /\ UNCHANGED <<xdsVars, swVars, dfVars, vlVars, argVars, gwVars, rdVars, acVars, pwVars, wkVars, rlVars>>

(***************************************************************************)
(* sidecar-bootstrap: argument checks                                      *)
(***************************************************************************)
\* positional arguments on the command line
MaxArgs == 2

\* a boolean flag is absent, or given with a value
BoolFlag == {"absent", "true", "false"}

\* the value of a boolean flag variable (default false)
Value(flag) == flag = "true"

\* pflag's Changed: the flag was given on the command line
Changed(flag) == flag # "absent"

\* plausible slip: the test on --output-file with --dry-run is left out
checkArgs_NoFileDryRun(n, fl) ==
    IF Value(fl.docs) THEN "nil"
    ELSE IF n = 0 /\ ~Value(fl.all) THEN "argument or --all"
    ELSE IF n > 0 /\ Value(fl.all) THEN "not both"
    ELSE IF Changed(fl.o) /\ Changed(fl.outputFile) THEN "-o or --output-file"
    ELSE IF Changed(fl.o) /\ Changed(fl.outputDir) THEN "-o or --output-dir"
    ELSE IF Changed(fl.outputFile) /\ Changed(fl.outputDir) THEN "--output-file or --output-dir"
    ELSE IF Changed(fl.o) /\ Changed(fl.dryRun) THEN "--dry-run with -o"
    ELSE IF Changed(fl.outputDir) /\ Changed(fl.dryRun) THEN "--dry-run with --output-dir"
    ELSE "nil"

\* the Args function of the command: the error it returns, "nil" for none
checkArgs(n, fl) ==
    IF Value(fl.docs) THEN "nil"
    ELSE IF n = 0 /\ ~Value(fl.all) THEN "argument or --all"
    ELSE IF n > 0 /\ Value(fl.all) THEN "not both"
    ELSE IF Changed(fl.o) /\ Changed(fl.outputFile) THEN "-o or --output-file"
    ELSE IF Changed(fl.o) /\ Changed(fl.outputDir) THEN "-o or --output-dir"
    ELSE IF Changed(fl.outputFile) /\ Changed(fl.outputDir) THEN "--output-file or --output-dir"
    ELSE IF Changed(fl.o) /\ Changed(fl.dryRun) THEN "--dry-run with -o"
    ELSE IF Changed(fl.outputFile) /\ Changed(fl.dryRun) THEN "--dry-run with --output-file"
    ELSE IF Changed(fl.outputDir) /\ Changed(fl.dryRun) THEN "--dry-run with --output-dir"
    ELSE "nil"

\* the command lines: -o, --all, --dry-run and --docs are boolean flags,
\* --output-file and --output-dir take a path
CommandLines ==
    [docs : BoolFlag, all : BoolFlag, o : BoolFlag, dryRun : BoolFlag,
     outputFile : {"absent", "path/to/file"}, outputDir : {"absent", "path/to/dir"}]

NoFlags ==
    [docs |-> "absent", all |-> "absent", o |-> "absent", dryRun |-> "absent",
     outputFile |-> "absent", outputDir |-> "absent"]

NotChecked == [done |-> FALSE, err |-> "nil", ran |-> FALSE]

ArgIdle == nargs = 0 /\ flags = NoFlags /\ argRes = NotChecked

\* cobra calls Args and, only when it returned no error, RunE
ArgsCall ==
    /\ ~argRes.done
    /\ LET err == checkArgs(nargs, flags)
       IN argRes' = [done |-> TRUE, err |-> err, ran |-> err = "nil"]
    /\ UNCHANGED <<nargs, flags>>
    /\ UNCHANGED <<xdsVars, swVars, dfVars, vlVars, bbVars, gwVars, rdVars, acVars, pwVars, wkVars, rlVars>>

(***************************************************************************)
(* sidecar-bootstrap: ingress gateway address                              *)
(***************************************************************************)
\* gateways of one mesh network
MaxGateways == 2

istioNamespace == "istio-system"

\* a gateway of a mesh network names a registry service or gives an address;
\* names and addresses are token sequences, <<>> the empty string
RegistryGateway(svcName) == [RegistryServiceName |-> svcName, Address |-> <<>>]

AddressGateway(address) == [RegistryServiceName |-> <<>>, Address |-> address]

Gateways ==
    {RegistryGateway(<<"gw-a", ".", "gateways">>), RegistryGateway(<<"gw-b", ".", "gateways">>),
     AddressGateway(<<"1.1.1.1">>), AddressGateway(<<"2.2.2.2">>)}

\* MeshNetworks.Networks: no entry, or one entry under a network name
NoNetworks == [n \in {} |-> <<>>]

MeshNetworks ==
    {NoNetworks} \cup
    {[n \in {name} |-> gws] : name \in {"net-1", "net-2"}, gws \in SeqsUpTo(Gateways, MaxGateways)}

\* bootstrapBundle.SplitServiceAndNamespace for a name of the form
\* service.namespace
SplitServiceAndNamespace(svcName) == [name |-> svcName[1], namespace |-> svcName[3]]

\* a Service of the cluster: its ports and its load-balancer ingress points
Service(ports, ingress) == [Ports |-> ports, Ingress |-> ingress]

Endpoint(hostname, ip) == [Hostname |-> hostname, IP |-> ip]

ServiceKeys ==
    {<<"gateways", "gw-a">>, <<"gateways", "gw-b">>,
     <<istioNamespace, "custom-ingress">>, <<istioNamespace, "istio-ingressgateway">>}

ServiceShapes == {"no 15443", "no points", "empty point", "ip", "ip, hostname"}

ServiceOf(key, shape) ==
    CASE shape = "no 15443" -> Service({80}, <<Endpoint(<<key[2], "example.org">>, <<>>)>>)
      [] shape = "no points" -> Service({15012, 15443}, <<>>)
      [] shape = "empty point" -> Service({15012, 15443}, <<Endpoint(<<>>, <<>>)>>)
      [] shape = "ip" -> Service({15012, 15443}, <<Endpoint(<<>>, <<key[2], "10.0.0.1">>)>>)
      [] OTHER -> Service({15012, 15443},
                          <<Endpoint(<<>>, <<key[2], "10.0.0.1">>),
                            Endpoint(<<key[2], "example.org">>, <<key[2], "10.0.0.2">>)>>)

\* the Services of the cluster: of one shape, at most one of them missing
Clusters ==
    {[key \in ServiceKeys \ missing |-> ServiceOf(key, shape)] :
        shape \in ServiceShapes, missing \in {{}} \cup {{key} : key \in ServiceKeys}}

NoCluster == [key \in {} |-> Service({}, <<>>)]

\* getIstioIngressGatewayAddress, the loop over the gateways of the network:
\* the first registry service name and the first address are kept
RECURSIVE scanGateways(_, _, _)
scanGateways(gws, i, acc) ==
    IF i > Len(gws) THEN acc
    ELSE LET gateway == gws[i]
             a1 == IF gateway.RegistryServiceName # <<>> /\ acc.name = ""
                   THEN LET sn == SplitServiceAndNamespace(gateway.RegistryServiceName)
                        IN [acc EXCEPT !.name = sn.name, !.namespace = sn.namespace,
                                       !.source = "MeshNetworks"]
                   ELSE acc
             a2 == IF gateway.Address # <<>> /\ a1.address = <<>>
                   THEN [a1 EXCEPT !.address = gateway.Address]
                   ELSE a1
         IN scanGateways(gws, i + 1, a2)

\* verifyMeshExpansionPorts
verifyMeshExpansionPorts(svc) == 15443 \in svc.Ports

\* getLoadBalancerAddress: <<>> stands for its error
FirstWith(ingress, field) ==
    LET at == {i \in DOMAIN ingress : ingress[i][field] # <<>>}
    IN IF at = {} THEN <<>> ELSE ingress[CHOOSE i \in at : \A j \in at : i <= j][field]

\* plausible slip: the first ingress point decides, an IP as good as a name
getLoadBalancerAddress_FirstPoint(svc) ==
    IF svc.Ingress = <<>> THEN <<>>
    ELSE IF svc.Ingress[1].Hostname # <<>> THEN svc.Ingress[1].Hostname
    ELSE svc.Ingress[1].IP

getLoadBalancerAddress(svc) ==
    IF svc.Ingress = <<>> THEN <<>>
    ELSE IF FirstWith(svc.Ingress, "Hostname") # <<>> THEN FirstWith(svc.Ingress, "Hostname")
    ELSE FirstWith(svc.Ingress, "IP")

Resolved(address, err, lookups) == [address |-> address, err |-> err, lookups |-> lookups]

\* plausible slip: an explicit address wins over a registry service
initialChoice_AddressFirst(networks, network) ==
    LET acc == IF network \in DOMAIN networks
               THEN scanGateways(networks[network], 1,
                        [name |-> "", namespace |-> "", source |-> "", address |-> <<>>])
               ELSE [name |-> "", namespace |-> "", source |-> "", address |-> <<>>]
    IN IF acc.address # <<>> THEN [acc EXCEPT !.name = ""] ELSE acc

\* what the loop over the selected network's gateways leaves
initialChoice(networks, network) ==
    IF network \in DOMAIN networks
    THEN scanGateways(networks[network], 1,
            [name |-> "", namespace |-> "", source |-> "", address |-> <<>>])
    ELSE [name |-> "", namespace |-> "", source |-> "", address |-> <<>>]

getIstioIngressGatewayAddress(cluster, ns, ingressSvc, networks, network) ==
    LET found == initialChoice(networks, network)
        choice == IF found.name = "" /\ found.address = <<>>
                  THEN IF ingressSvc # ""
                       THEN [found EXCEPT !.name = ingressSvc, !.namespace = ns,
                                          !.source = "MeshConfig.IngressService"]
                       ELSE [found EXCEPT !.name = "istio-ingressgateway", !.namespace = ns,
                                          !.source = "default"]
                  ELSE found
        key == <<choice.namespace, choice.name>>
    IN IF choice.name # ""
       THEN IF key \notin DOMAIN cluster
            THEN Resolved(<<>>, "unable to find", <<key>>)
            ELSE IF ~verifyMeshExpansionPorts(cluster[key])
            THEN Resolved(<<>>, "not configured for mesh expansion", <<key>>)
            ELSE IF getLoadBalancerAddress(cluster[key]) = <<>>
            THEN Resolved(<<>>, "unable to determine address", <<key>>)
            ELSE Resolved(getLoadBalancerAddress(cluster[key]), "nil", <<key>>)
       ELSE IF choice.address = <<>>
       THEN Resolved(<<>>, "unable to infer address", <<>>)
       ELSE Resolved(choice.address, "nil", <<>>)

NotResolved == [done |-> FALSE, address |-> <<>>, err |-> "nil", lookups |-> <<>>]

GwIdle ==
    /\ meshNetworks = NoNetworks /\ globalNetwork = "" /\ ingressService = ""
    /\ services = NoCluster /\ gwRes = NotResolved

\* a call getIstioIngressGatewayAddress(kubeClient, istioNamespace, meshConfig,
\* meshNetworksConfig, istioConfigValues)
GatewayAddressCall ==
    /\ ~gwRes.done
    /\ LET r == getIstioIngressGatewayAddress(services, istioNamespace, ingressService,
                                              meshNetworks, globalNetwork)
       IN gwRes' = [done |-> TRUE, address |-> r.address, err |-> r.err, lookups |-> r.lookups]
    /\ UNCHANGED <<meshNetworks, globalNetwork, ingressService, services>>
    /\ UNCHANGED <<xdsVars, swVars, dfVars, vlVars, bbVars, argVars, rdVars, acVars, pwVars, wkVars, rlVars>>

(***************************************************************************)
(* revision describe: the sections of the report                           *)
(***************************************************************************)
\* sections requested for one report
MaxSections == 2

IstioOperatorCRSection == "ISTIO-OPERATOR-CR"

ControlPlaneSection == "CONTROL-PLANE"

GatewaysSection == "GATEWAYS"

WebhooksSection == "MUTATING-WEBHOOKS"

NamespaceSummarySection == "NAMESPACE-SUMMARY"

PodsSection == "PODS"

KnownSections ==
    {IstioOperatorCRSection, ControlPlaneSection, GatewaysSection, WebhooksSection,
     NamespaceSummarySection, PodsSection}

\* the calls to the cluster that may fail while the sections are gathered:
\* getDiffs of the revision's IstioOperator, getIngressGateways,
\* getEgressGateways, getPodsWithRevision
Fetches == {"getDiffs", "getIngressGateways", "getEgressGateways", "getPodsWithRevision"}

\* the sections whose table printer can return an error
\* (printIstioOperatorCRInfo always returns nil)
FailingPrinters ==
    {ControlPlaneSection, GatewaysSection, WebhooksSection, NamespaceSummarySection, PodsSection}

FetchError(call) == <<"fetch", call>>

PrintError(s) == <<"error in section", s>>

\* multierror.Append(err, errs...): the errors of err, then errs
Append1(err, errs) == <<err>> \o errs

\* the loop over args.sections: st = [errs, pods, err, fetched, unknown];
\* errs is the local multierror, err the function's err variable, pods the
\* cached pod list ("nil" until getPodsWithRevision was called)
RECURSIVE gatherSections(_, _, _, _)
gatherSections(secs, i, fails, st) ==
    IF i > Len(secs) THEN st
    ELSE LET s == secs[i]
             seen == [st EXCEPT !.fetched = Append(st.fetched, s)]
             fetchPods == IF st.pods = "nil"
                          THEN [seen EXCEPT !.pods = "fetched",
                                            !.err = IF "getPodsWithRevision" \in fails
                                                    THEN FetchError("getPodsWithRevision")
                                                    ELSE <<>>]
                          ELSE seen
         IN CASE s = IstioOperatorCRSection ->
                    gatherSections(secs, i + 1, fails,
                        IF "getDiffs" \in fails
                        THEN [seen EXCEPT !.errs = Append1(FetchError("getDiffs"), st.errs)]
                        ELSE seen)
              [] s \in {WebhooksSection, ControlPlaneSection} ->
                    gatherSections(secs, i + 1, fails, seen)
              [] s = GatewaysSection ->
                    LET in == IF "getIngressGateways" \in fails
                              THEN Append1(FetchError("getIngressGateways"), st.errs)
                              ELSE st.errs
                        eg == IF "getEgressGateways" \in fails
                              THEN Append1(FetchError("getEgressGateways"), in)
                              ELSE in
                    IN gatherSections(secs, i + 1, fails, [seen EXCEPT !.errs = eg])
              [] s = NamespaceSummarySection ->
                    gatherSections(secs, i + 1, fails,
                        IF fetchPods.err # <<>>
                        THEN [fetchPods EXCEPT !.errs = Append1(fetchPods.err, st.errs)]
                        ELSE fetchPods)
              [] s = PodsSection ->
                    gatherSections(secs, i + 1, fails, fetchPods)
              [] OTHER -> [seen EXCEPT !.unknown = TRUE]

\* printTable: st = [errs, printed]
RECURSIVE printTable(_, _, _, _)
printTable(secs, i, fails, st) ==
    IF i > Len(secs) THEN st
    ELSE LET s == secs[i]
         IN IF s \notin KnownSections
            THEN printTable(secs, i + 1, fails,
                    [st EXCEPT !.errs = Append1(<<"unknown section", s>>, st.errs)])
            ELSE printTable(secs, i + 1, fails,
                    [errs |-> IF s \in fails THEN <<PrintError(s)>> ELSE st.errs,
                     printed |-> Append(st.printed, s)])

\* printRevisionDescription from the loop over the sections on: the error it
\* returns is a list of errors, <<>> for nil
printRevisionDescription(secs, format, fetchBad, printBad) ==
    LET g == gatherSections(secs, 1, fetchBad,
                [errs |-> <<>>, pods |-> "nil", err |-> <<>>, fetched |-> <<>>, unknown |-> FALSE])
    IN IF g.unknown
       THEN [fetched |-> g.fetched, printed |-> <<>>, gathered |-> g.errs,
             returned |-> <<<<"unknown section", g.fetched[Len(g.fetched)]>>>>]
       ELSE IF format = "json"
       THEN [fetched |-> g.fetched, printed |-> <<>>, gathered |-> g.errs, returned |-> <<>>]
       ELSE LET p == printTable(secs, 1, printBad, [errs |-> <<>>, printed |-> <<>>])
            IN [fetched |-> g.fetched, printed |-> p.printed, gathered |-> g.errs,
                returned |-> p.errs]

NotDescribed ==
    [done |-> FALSE, fetched |-> <<>>, printed |-> <<>>, gathered |-> <<>>, returned |-> <<>>]

RdIdle ==
    /\ sections = <<>> /\ output = "table" /\ fetchFails = {} /\ printFails = {}
    /\ rdRes = NotDescribed

\* a call printRevisionDescription(w, args, logger) for a revision that exists
DescribeCall ==
    /\ ~rdRes.done
    /\ sections # <<>>
    /\ LET r == printRevisionDescription(sections, output, fetchFails, printFails)
       IN rdRes' = [done |-> TRUE, fetched |-> r.fetched, printed |-> r.printed,
                    gathered |-> r.gathered, returned |-> r.returned]
    /\ UNCHANGED <<sections, output, fetchFails, printFails>>
    /\ UNCHANGED <<xdsVars, swVars, dfVars, vlVars, bbVars, argVars, gwVars, acVars, pwVars, wkVars, rlVars>>

(***************************************************************************)
(* validateAddonComponents                                                 *)
(***************************************************************************)
\* keys of one addon-component map
MaxAddons == 2

\* a component name: its first letter and the rest
CName(first, rest) == <<first, rest>>

\* name.BundledAddonComponentNamesMap: two reserved names stand for the table
BundledAddonComponentNamesMap == {CName("Z", "ipkin"), CName("P", "rometheus")}

\* strings.ToUpper of one letter
ToUpper(letter) ==
    CASE letter = "z" -> "Z" [] letter = "p" -> "P" [] letter = "k" -> "K" [] OTHER -> letter

\* name.TitleCase: the first letter in upper case
TitleCase(cn) == CName(ToUpper(cn[1]), cn[2])

AddonKeys ==
    {CName("Z", "ipkin"), CName("z", "ipkin"), CName("Z", "IPKIN"), CName("z", "ipkin-custom"),
     CName("P", "rometheus"), CName("k", "iali")}

\* a value of type map[string]*v1alpha1.ExternalComponentSpec
AddonMap(m) == [k |-> "map[string]*ExternalComponentSpec", m |-> m]

AddonValues ==
    {AddonMap(m) : m \in UNION {[ks -> {"spec", "nil"}] :
                                  ks \in {s \in SUBSET AddonKeys : Cardinality(s) <= MaxAddons}}}
    \cup {GStr("Zipkin"), GNil,
          GMap([key \in {CName("Z", "ipkin")} |-> GStr("spec")]),
          RValue(AddonMap([key \in {CName("Z", "ipkin")} |-> "spec"]))}

\* the orders in which the range statement may visit the keys of a map
AddonOrders(val) ==
    IF val.k # "map[string]*ExternalComponentSpec" THEN {<<>>}
    ELSE {o \in SeqsUpTo(DOMAIN val.m, MaxAddons) :
            Len(o) = Cardinality(DOMAIN val.m) /\ \A i, j \in DOMAIN o : i # j => o[i] # o[j]}

\* plausible slip: the name is compared without regard to its first letter's case
collides_AnyCase(cn) == TitleCase(cn) \in BundledAddonComponentNamesMap

\* the test on one key
collides(cn) == cn \in BundledAddonComponentNamesMap /\ cn = TitleCase(cn)

\* validateAddonComponents, the loop over the keys from the i-th on
RECURSIVE addonKeysFrom(_, _)
addonKeysFrom(order, i) ==
    IF i > Len(order) THEN <<>>
    ELSE IF collides(order[i])
    THEN <<[msg |-> "invalid addon component name", key |-> order[i]]>>
    ELSE addonKeysFrom(order, i + 1)

validateAddonComponents(val, order) ==
    IF val.k # "map[string]*ExternalComponentSpec"
    THEN <<[msg |-> "bad type", key |-> <<>>]>>
    ELSE addonKeysFrom(order, 1)

AcIdle == acVal = GNil /\ acOrder = <<>> /\ acRes = [done |-> FALSE, errs |-> <<>>]

\* a call validateAddonComponents(path, val)
ValidateAddonCall ==
    /\ ~acRes.done
    /\ acRes' = [done |-> TRUE, errs |-> validateAddonComponents(acVal, acOrder)]
    /\ UNCHANGED <<acVal, acOrder>>
    /\ UNCHANGED <<xdsVars, swVars, dfVars, vlVars, bbVars, argVars, gwVars, rdVars, pwVars, wkVars, rlVars>>

(***************************************************************************)
(* Validate: the util.Path slices of one walk                              *)
(***************************************************************************)
\* A util.Path is a []string: a reference to a backing array, a length and a
\* capacity.  The heap is the sequence of the arrays allocated so far; the
\* nil slice refers to no array.
NilPath == [a |-> 0, len |-> 0, cap |-> 0]

\* the segments a slice shows in a heap
Content(h, s) == IF s.len = 0 THEN <<>> ELSE SubSeq(h[s.a], 1, s.len)

\* The capacity of the array append allocates when the old one is full.  The
\* language leaves it to the implementation: the gc runtime doubles a small
\* capacity, an implementation may also allocate exactly what is needed.
Growths == {"double", "exact"}

NewCap(s, growth) ==
    IF growth = "double" /\ s.cap > 0 THEN 2 * s.cap ELSE s.len + 1

\* append(path, seg): in place when the capacity allows, else into a new array
appendPath(h, s, seg, growth) ==
    IF s.len < s.cap
    THEN [h |-> [h EXCEPT ![s.a] = [@ EXCEPT ![s.len + 1] = seg]],
          s |-> [s EXCEPT !.len = s.len + 1]]
    ELSE LET cap == NewCap(s, growth)
             arr == [i \in 1..cap |->
                        IF i <= s.len THEN h[s.a][i] ELSE IF i = s.len + 1 THEN seg ELSE <<>>]
         IN [h |-> Append(h, arr), s |-> [a |-> Len(h) + 1, len |-> s.len + 1, cap |-> cap]]

\* The state of a walk: the heap and the paths handed to rule functions so
\* far, each with the slice handed, the segments it showed at the call and
\* the location of the leaf in the tree.
Walk(h, handed) == [h |-> h, handed |-> handed]

\* validateLeaf: vf(path, val) is called for a value that is not empty and
\* has a rule
pathLeaf(w, vals, s, loc, val) ==
    IF validateLeaf(vals, Content(w.h, s), val, FALSE).calls = <<>> THEN w
    ELSE Walk(w.h, Append(w.handed, [s |-> s, path |-> Content(w.h, s), loc |-> loc]))

RECURSIVE pathValidate(_, _, _, _, _, _, _)
RECURSIVE pathFields(_, _, _, _, _, _, _, _)
RECURSIVE pathMapKeys(_, _, _, _, _, _, _)
RECURSIVE pathSlice(_, _, _, _, _, _, _, _)

\* the range over fieldValue.MapKeys()
pathMapKeys(w, vals, newPath, loc, m, ks, growth) ==
    IF ks = <<>> THEN w
    ELSE LET nnp == appendPath(w.h, newPath, Head(ks), growth)
             this == pathLeaf(Walk(nnp.h, w.handed), vals, nnp.s, Append(loc, Head(ks)),
                              RValue(m[Head(ks)]))
         IN pathMapKeys(this, vals, newPath, loc, m, Tail(ks), growth)

\* the loop over the elements of a slice field, from 0-based index i on
pathSlice(w, vals, path, loc, fld, i, order, growth) ==
    IF i >= Len(fld.val.s) THEN w
    ELSE LET newValue == fld.val.s[i + 1]
             seg == indexPathForSlice(fld.Name, i)
             newPath == appendPath(w.h, path, seg, growth)
             w1 == Walk(newPath.h, w.handed)
             this == IF IsStruct(newValue) \/ IsPtr(newValue)
                     THEN pathValidate(w1, vals, newValue, newPath.s, Append(loc, seg), order, growth)
                     ELSE pathLeaf(w1, vals, newPath.s, Append(loc, seg), newValue)
         IN pathSlice(this, vals, path, loc, fld, i + 1, order, growth)

\* one iteration of the loop over the fields: the switch on the field's kind
pathField(w, vals, path, loc, fld, order, growth) ==
    LET newPath == appendPath(w.h, path, <<fld.Name>>, growth)
        w1 == Walk(newPath.h, w.handed)
        newLoc == Append(loc, <<fld.Name>>)
    IN IF fld.json = "-" THEN w
       ELSE CASE FieldKind(fld) = "struct" ->
                    pathValidate(w1, vals, GPtr(fld.val), newPath.s, newLoc, order, growth)
              [] FieldKind(fld) = "map" ->
                    pathMapKeys(pathLeaf(w1, vals, newPath.s, newLoc, fld.val), vals, newPath.s,
                                newLoc, fld.val.m,
                                SelectSeq(order, LAMBDA key : key \in DOMAIN fld.val.m), growth)
              [] FieldKind(fld) = "slice" -> pathSlice(w, vals, path, loc, fld, 0, order, growth)
              [] FieldKind(fld) = "ptr" ->
                    IF IsNilOrInvalidValue(Elem(fld.val)) THEN w
                    ELSE IF Elem(fld.val).k = "struct"
                    THEN pathValidate(w1, vals, fld.val, newPath.s, newLoc, order, growth)
                    ELSE pathLeaf(w1, vals, newPath.s, newLoc, RValue(fld.val))
              [] OTHER -> pathLeaf(w1, vals, newPath.s, newLoc, fld.val)

\* the loop over the fields from field i on
pathFields(w, vals, fields, i, path, loc, order, growth) ==
    IF i > Len(fields) THEN w
    ELSE pathFields(pathField(w, vals, path, loc, fields[i], order, growth),
                    vals, fields, i + 1, path, loc, order, growth)

\* Validate, with the slices it builds and hands on
pathValidate(w, vals, value, path, loc, order, growth) ==
    IF checkRoot(value) = "walk"
    THEN pathFields(w, vals, Elem(value).f, 1, path, loc, order, growth)
    ELSE w

\* resource settings of a gateway: two scalars
K8sChoices ==
    {GNilPtr,
     GPtr(GStruct(<<Field("ImagePullPolicy", "imagePullPolicy", FALSE, GStr("Always")),
                    Field("PriorityClassName", "priorityClassName", FALSE, GStr("high"))>>)),
     GPtr(GStruct(<<Field("ImagePullPolicy", "imagePullPolicy", FALSE, GStr("")),
                    Field("PriorityClassName", "priorityClassName", FALSE, GStr("high"))>>))}

\* a gateway with a name, a map of labels and its resource settings
DeepGateways ==
    {GPtr(GStruct(<<Field("Name", "name", FALSE, GStr(name)),
                    Field("Label", "label", FALSE, labels),
                    Field("K8S", "k8s", FALSE, k8s)>>)) :
        name \in {"", "valid-name"}, labels \in LabelChoices, k8s \in K8sChoices}

\* a spec with a hub and up to MaxElems gateways under Components
DeepSpecs ==
    {GPtr(GStruct(<<Field("Hub", "hub", FALSE, GStr("docker.io/istio")),
                    Field("Components", "components", FALSE,
                          GPtr(GStruct(<<Field("IngressGateways", "ingressGateways", FALSE,
                                               GSlice(gws))>>)))>>)) :
        gws \in SeqsUpTo(DeepGateways, MaxElems)}

\* a caller's table with rules on the leaves of a gateway
DeepValidations ==
    [pat \in {<<"Hub">>,
              <<"Components", ".", "IngressGateways", "[", "*", "]", ".", "Name">>,
              <<"Components", ".", "IngressGateways", "[", "*", "]", ".", "Label", ".", "app">>,
              <<"Components", ".", "IngressGateways", "[", "*", "]", ".", "Label", ".", "tier">>,
              <<"Components", ".", "IngressGateways", "[", "*", "]", ".", "K8S", ".", "ImagePullPolicy">>,
              <<"Components", ".", "IngressGateways", "[", "*", "]", ".", "K8S", ".", "PriorityClassName">>} |->
        IF pat = <<"Hub">> THEN "validateHub" ELSE "validateGatewayName"]

NotWalkedPaths == [done |-> FALSE, h |-> <<>>, handed |-> <<>>]

PwIdle == pwRoot = GNil /\ pwOrder = <<>> /\ pwGrowth = "double" /\ pwRes = NotWalkedPaths

\* a call Validate(validations, structPtr, nil, checkRequired), as
\* CheckIstioOperatorSpec makes it
ValidatePathsCall ==
    /\ ~pwRes.done
    /\ pwOrder # <<>>
    /\ LET w == pathValidate(Walk(<<>>, <<>>), DeepValidations, pwRoot, NilPath, <<>>,
                             pwOrder, pwGrowth)
       IN pwRes' = [done |-> TRUE, h |-> w.h, handed |-> w.handed]
    /\ UNCHANGED <<pwRoot, pwOrder, pwGrowth>>
    /\ UNCHANGED <<xdsVars, swVars, dfVars, vlVars, bbVars, argVars, gwVars, rdVars, acVars, wkVars, rlVars>>

(***************************************************************************)
(* sidecar-bootstrap: the command and its workloads                        *)
(***************************************************************************)
\* WorkloadEntry(s) handled by one run
MaxEntries == 2

WorkloadEntry(name, sa) == [Name |-> name, ServiceAccount |-> sa]

EntryNames == <<"vm-1", "vm-2", "vm-3">>

ServiceAccounts == {"", "ratings-sa", "reviews-sa"}

\* the entries of the namespace: distinct names, any service accounts
EntryLists ==
    {[i \in DOMAIN sas |-> WorkloadEntry(EntryNames[i], sas[i])] :
        sas \in SeqsUpTo(ServiceAccounts, MaxEntries)}

\* A failure point is a call that can fail and the object it fails on ("" for
\* a call made once).  A run returns the first failure it meets.
Point(call, on) == <<call, on>>

\* the calls RunE makes before the identities are generated, in order
PreludeSteps ==
    <<"interfaceFactory", "ServerVersion", "configStoreFactory", "fetchWorkloadEntries",
      "getMeshConfigFromConfigMap", "getMeshNetworksFromConfigMap", "getConfigValuesFromConfigMap",
      "JwtPolicy", "PilotCertProvider", "getIstioCaCert", "getIstioIngressGatewayAddress",
      "getProxyConfigOverrides">>

\* the first failing call among the steps from the i-th up to the step
\* stopAt, "nil" when none fails
RECURSIVE firstFailure(_, _, _, _)
firstFailure(steps, i, stopAt, fails) ==
    IF i > Len(steps) \/ steps[i] = stopAt THEN "nil"
    ELSE IF Point(steps[i], "") \in fails THEN steps[i]
    ELSE firstFailure(steps, i + 1, stopAt, fails)

\* plausible slip: a token is requested for every entry
seen_Never(sa, seen) == FALSE

\* seenServiceAccounts[wle.ServiceAccount] is set
seen(sa, seenAccounts) == sa \in seenAccounts

\* getIdentityForEachWorkload: the identities (the accounts that got a token;
\* none with an error), the error, and the token requests made
RECURSIVE getIdentityForEachWorkload(_, _, _, _, _)
getIdentityForEachWorkload(workloadEntries, i, seenServiceAccounts, requests, fails) ==
    IF i > Len(workloadEntries)
    THEN [ids |-> seenServiceAccounts, isnil |-> FALSE, err |-> "nil", requests |-> requests]
    ELSE LET wle == workloadEntries[i]
         IN IF seen(wle.ServiceAccount, seenServiceAccounts)
            THEN getIdentityForEachWorkload(workloadEntries, i + 1, seenServiceAccounts,
                                            requests, fails)
            ELSE IF wle.ServiceAccount = ""
            THEN [ids |-> {}, isnil |-> TRUE, err |-> "ServiceAccount field is empty",
                  requests |-> requests]
            ELSE IF Point("CreateToken", wle.ServiceAccount) \in fails
            THEN [ids |-> {}, isnil |-> TRUE, err |-> "CreateToken",
                  requests |-> Append(requests, wle.ServiceAccount)]
            ELSE getIdentityForEachWorkload(workloadEntries, i + 1,
                                            seenServiceAccounts \cup {wle.ServiceAccount},
                                            Append(requests, wle.ServiceAccount), fails)

\* the callback of writeToDir, writeToArchive or copyOverSSH on one bundle:
\* MkdirAll and the writes of writeBootstrapBundle, the tar headers and
\* contents, or copyBootstrapBundle
handleBundle(target, workload, fails) ==
    LET call == CASE target = "dir" -> "WriteFile"
                  [] target = "archive" -> "tarWriter.Write"
                  [] OTHER -> "copyBootstrapBundle"
    IN IF Point(call, workload.Name) \in fails THEN call ELSE "nil"

\* processWorkloads: the workloads handed to the callback, the workloads
\* skipped for want of an identity, and the error
RECURSIVE processWorkloads(_, _, _, _, _, _, _)
processWorkloads(workloads, i, workloadIdentityMapping, target, fails, handled, skipped) ==
    IF i > Len(workloads) THEN [handled |-> handled, skipped |-> skipped, err |-> "nil"]
    ELSE LET workload == workloads[i]
         IN IF workload.ServiceAccount \notin workloadIdentityMapping
            THEN processWorkloads(workloads, i + 1, workloadIdentityMapping, target, fails,
                                  handled, Append(skipped, workload.Name))
            ELSE IF Point("ForWorkload", workload.Name) \in fails
            THEN [handled |-> handled, skipped |-> skipped, err |-> "ForWorkload"]
            ELSE LET err == handleBundle(target, workload, fails)
                 IN IF err # "nil"
                    THEN [handled |-> Append(handled, workload.Name), skipped |-> skipped,
                          err |-> err]
                    ELSE processWorkloads(workloads, i + 1, workloadIdentityMapping, target,
                                          fails, Append(handled, workload.Name), skipped)

writeToDir(workloads, identities, fails) ==
    processWorkloads(workloads, 1, identities, "dir", fails, <<>>, <<>>)

writeToArchive(workloads, identities, fails) ==
    IF Point("OpenFile", "") \in fails
    THEN [handled |-> <<>>, skipped |-> <<>>, err |-> "OpenFile"]
    ELSE processWorkloads(workloads, 1, identities, "archive", fails, <<>>, <<>>)

copyOverSSH(workloads, identities, fails) ==
    processWorkloads(workloads, 1, identities, "ssh", fails, <<>>, <<>>)

\* the result of a run: the error RunE returns, the token requests, the
\* identities, what processWorkloads did, and the error of the step that
\* wrote the target
Ran(err, id, pw) ==
    [done |-> TRUE, err |-> err, requests |-> id.requests, ids |-> id.ids, idsNil |-> id.isnil,
     idErr |-> id.err, handled |-> pw.handled, skipped |-> pw.skipped, outErr |-> pw.err]

NoIdentities == [ids |-> {}, isnil |-> TRUE, err |-> "-", requests |-> <<>>]

NothingProcessed == [handled |-> <<>>, skipped |-> <<>>, err |-> "-"]

\* NewVMBootstrapCommand.RunE
RunE(entries, target, fails) ==
    LET early == firstFailure(PreludeSteps, 1, "getMeshConfigFromConfigMap", fails)
        late == firstFailure(PreludeSteps, 5, "", fails)
    IN IF early # "nil" THEN Ran(early, NoIdentities, NothingProcessed)
       ELSE IF Len(entries) = 0 THEN Ran("nil", NoIdentities, NothingProcessed)
       ELSE IF late # "nil" THEN Ran(late, NoIdentities, NothingProcessed)
       ELSE LET id == getIdentityForEachWorkload(entries, 1, {}, <<>>, fails)
            IN IF id.err # "nil" THEN Ran("getIdentityForEachWorkload", id, NothingProcessed)
               ELSE CASE target = "dir" ->
                            Ran("nil", id, writeToDir(entries, id.ids, fails))
                      [] target = "archive" ->
                            IF Point("pickArchiveName", "") \in fails
                            THEN Ran("pickArchiveName", id, NothingProcessed)
                            ELSE Ran("nil", id, writeToArchive(entries, id.ids, fails))
                      [] OTHER ->
                            IF Point("parseSSHConfig", "") \in fails
                            THEN Ran("parseSSHConfig", id, NothingProcessed)
                            ELSE LET pw == copyOverSSH(entries, id.ids, fails)
                                 IN Ran(pw.err, id, pw)

Outputs == {"dir", "archive", "ssh"}

\* at most one call fails in a run
FailureChoices ==
    {{}} \cup {{Point(PreludeSteps[i], "")} : i \in DOMAIN PreludeSteps}
    \cup {{Point("CreateToken", sa)} : sa \in ServiceAccounts \ {""}}
    \cup {{Point(call, EntryNames[i])} :
            call \in {"ForWorkload", "WriteFile", "tarWriter.Write", "copyBootstrapBundle"},
            i \in 1..MaxEntries}
    \cup {{Point(call, "")} : call \in {"OpenFile", "pickArchiveName", "parseSSHConfig"}}

NotStarted ==
    [done |-> FALSE, err |-> "nil", requests |-> <<>>, ids |-> {}, idsNil |-> TRUE,
     idErr |-> "-", handled |-> <<>>, skipped |-> <<>>, outErr |-> "-"]

WkIdle == wkEntries = <<>> /\ wkOutput = "ssh" /\ wkFails = {} /\ wkRes = NotStarted

\* a run of istioctl x sidecar-bootstrap
RunECall ==
    /\ ~wkRes.done
    /\ wkRes' = RunE(wkEntries, wkOutput, wkFails)
    /\ UNCHANGED <<wkEntries, wkOutput, wkFails>>
    /\ UNCHANGED <<xdsVars, swVars, dfVars, vlVars, bbVars, argVars, gwVars, rdVars, acVars, pwVars, rlVars>>

(***************************************************************************)
(* revision list                                                           *)
(***************************************************************************)
\* mutating webhooks and IstioOperator CRs found in the cluster
MaxHooks == 2

MaxCRs == 2

\* a mutating webhook with its labels istio.io/rev and istio.io/tag
Hook(name, rev, tag) == [Name |-> name, rev |-> rev, tag |-> tag]

HookNames == <<"istio-sidecar-injector", "istio-revision-tag-prod", "istio-sidecar-injector-canary">>

HookLabels == {<<"", "">>, <<"canary", "prod">>, <<"canary", "">>}

HookLists ==
    {[i \in DOMAIN ls |-> Hook(HookNames[i], ls[i][1], ls[i][2])] :
        ls \in SeqsUpTo(HookLabels, MaxHooks)}

iopDiffs == <<iopDiff(<<"hub">>, <<"gcr.io/istio">>), iopDiff(<<"tag">>, <<"1.10">>),
              iopDiff(<<"meshConfig.accessLogFile">>, <<"/dev/stdout">>)>>

\* an IstioOperator CR: its revision and profile, the components enabled in
\* its spec and the customizations getDiffs finds for it
OperatorCR(name, rev, profile, components, diffs) ==
    [Namespace |-> "istio-system", Name |-> name, Revision |-> rev, Profile |-> profile,
     Components |-> components, Diffs |-> diffs]

CRNames == <<"installed-state", "installed-state-canary", "installed-state-stable">>

CRShapes ==
    {<<"", "", <<>>, <<>>>>,
     <<"", "demo", <<"base", "istiod">>, SubSeq(iopDiffs, 1, 1)>>,
     <<"canary", "", <<"istiod">>, iopDiffs>>,
     <<"stable", "minimal", <<"istiod">>, <<>>>>}

CRLists ==
    {[i \in DOMAIN ss |-> OperatorCR(CRNames[i], ss[i][1], ss[i][2], ss[i][3], ss[i][4])] :
        ss \in SeqsUpTo(CRShapes, MaxCRs)}

\* renderWithDefault(s, "default")
renderWithDefault(s) == IF s # "" THEN s ELSE "<default>"

effectiveProfile(profile) == IF profile # "" THEN profile ELSE "default"

mutatingWebhookConfigInfo(name, rev, tag) == [Name |-> name, Revision |-> rev, Tag |-> tag]

istioOperatorCRInfo(iop, customizations) ==
    [Namespace |-> iop.Namespace, Name |-> iop.Name, Profile |-> iop.Profile,
     Components |-> iop.Components, Customizations |-> customizations]

NoRevisions == [rev \in {} |-> [IstioOperatorCRs |-> <<>>, Webhooks |-> <<>>]]

\* revisionList, the loop over the webhooks
RECURSIVE revisionsOfHooks(_, _, _)
revisionsOfHooks(webhooks, i, revisions) ==
    IF i > Len(webhooks) THEN revisions
    ELSE LET hook == webhooks[i]
             rev == renderWithDefault(hook.rev)
             info == mutatingWebhookConfigInfo(hook.Name, rev, hook.tag)
         IN revisionsOfHooks(webhooks, i + 1,
                IF rev \in DOMAIN revisions
                THEN IF hook.tag # ""
                     THEN [revisions EXCEPT ![rev].Webhooks = Append(@, info)]
                     ELSE revisions
                ELSE [r \in DOMAIN revisions \cup {rev} |->
                        IF r = rev THEN [IstioOperatorCRs |-> <<>>, Webhooks |-> <<info>>]
                        ELSE revisions[r]])

\* revisionList, the loop over the IstioOperator CRs
RECURSIVE revisionsOfCRs(_, _, _, _, _)
revisionsOfCRs(iopcrs, i, revisions, verbose, fails) ==
    IF i > Len(iopcrs) THEN [revisions |-> revisions, err |-> "nil"]
    ELSE LET iop == iopcrs[i]
             rev == renderWithDefault(iop.Revision)
         IN IF rev \notin DOMAIN revisions
            THEN revisionsOfCRs(iopcrs, i + 1, revisions, verbose, fails)
            ELSE IF verbose /\ "getDiffs" \in fails
            THEN [revisions |-> revisions, err |-> "getDiffs"]
            ELSE revisionsOfCRs(iopcrs, i + 1,
                    [revisions EXCEPT ![rev].IstioOperatorCRs =
                        Append(@, istioOperatorCRInfo(iop, IF verbose THEN iop.Diffs ELSE <<>>))],
                    verbose, fails)

\* a cell of the table: a text as tokens, nothing for the empty string
Cell(text) == IF text = "" THEN <<>> ELSE <<text>>

Blank == <<" ">>

max(x, y) == IF x > y THEN x ELSE y

\* plausible slip: the rows of a CR are counted by its components alone
maxIopRows_ComponentsOnly(components, customizations) == max(1, Len(components))

maxIopRows(components, customizations) ==
    max(max(1, Len(components)), Len(customizations))

\* the tags of a revision, "<no-tag>" when it has no webhook
tagsOf(ri) ==
    IF ri.Webhooks = <<>> THEN <<"<no-tag>">>
    ELSE [k \in DOMAIN ri.Webhooks |-> ri.Webhooks[k].Tag]

\* a row as fmt.Fprintf writes it: five cells, six with verbose
Row(verbose, rowRev, rowTag, rowIopName, rowProfile, rowComp, rowCust) ==
    <<rowRev, rowTag, rowIopName, rowProfile, rowComp>> \o (IF verbose THEN <<rowCust>> ELSE <<>>)

\* the rows of one IstioOperator CR, rowId counting the rows of the revision
iopRows(r, tags, iop, rowId, verbose) ==
    LET customizations ==
            IF iop.Customizations = <<>> THEN <<<<"<no-customization>">>>>
            ELSE [k \in DOMAIN iop.Customizations |->
                    iop.Customizations[k].Path \o <<"=">> \o iop.Customizations[k].Value]
        n == maxIopRows(iop.Components, customizations)
    IN [k \in 1..n |->
            LET i == k - 1
            IN Row(verbose,
                   IF rowId + i = 0 THEN Cell(r) ELSE <<>>,
                   IF rowId + i < Len(tags) THEN Cell(tags[rowId + i + 1]) ELSE <<>>,
                   IF i = 0 THEN <<iop.Namespace, "/", iop.Name>> ELSE <<>>,
                   IF i = 0 THEN Cell(effectiveProfile(iop.Profile)) ELSE <<>>,
                   IF i < Len(iop.Components) THEN Cell(iop.Components[i + 1]) ELSE <<>>,
                   IF i < Len(customizations) THEN customizations[i + 1] ELSE <<>>)]

\* the loop over the CRs of a revision
RECURSIVE crRows(_, _, _, _, _, _)
crRows(r, tags, iops, j, rows, verbose) ==
    IF j > Len(iops) THEN rows
    ELSE crRows(r, tags, iops, j + 1, rows \o iopRows(r, tags, iops[j], Len(rows), verbose),
                verbose)

\* the rows of a revision: those of its CRs, then one for each tag left over
revisionRows(r, ri, verbose) ==
    LET tags == tagsOf(ri)
        rows == crRows(r, tags, ri.IstioOperatorCRs, 1, <<>>, verbose)
    IN rows \o
       [k \in 1..(IF Len(tags) > Len(rows) THEN Len(tags) - Len(rows) ELSE 0) |->
            LET rowId == Len(rows) + k - 1
            IN Row(verbose,
                   IF rowId = 0 THEN Cell(r) ELSE <<>>,
                   Cell(tags[rowId + 1]),
                   IF rowId = 0 THEN <<"<no-iop>">> ELSE <<>>,
                   Blank, Blank, Blank)]

RECURSIVE tableRows(_, _, _)
tableRows(revisions, order, verbose) ==
    IF order = <<>> THEN <<>>
    ELSE revisionRows(Head(order), revisions[Head(order)], verbose)
         \o tableRows(revisions, Tail(order), verbose)

Header(verbose) ==
    Row(verbose, <<"REVISION">>, <<"TAG">>, <<"ISTIO-OPERATOR-CR">>, <<"PROFILE">>,
        <<"REQD-COMPONENTS">>, <<"CUSTOMIZATIONS">>)

\* printRevisionInfoTable: the lines handed to the tabwriter and the result
\* of Flush
printRevisionInfoTable(verbose, revisions, order, fails) ==
    [out |-> <<Header(verbose)>>
             \o tableRows(revisions, SelectSeq(order, LAMBDA r : r \in DOMAIN revisions), verbose),
     err |-> IF "Write" \in fails THEN "Flush" ELSE "nil"]

\* json.MarshalIndent(res, "", "\t")
MarshalIndent(res) == [json |-> res]

\* printJSON: the writes made on w and the error returned
printJSON(res, fails) ==
    IF "MarshalIndent" \in fails THEN [out |-> <<>>, err |-> "MarshalIndent"]
    ELSE [out |-> <<[op |-> "Write", data |-> MarshalIndent(res)],
                    [op |-> "Fprintln", data |-> MarshalIndent(res)]>>,
          err |-> "nil"]

Listed(err, revisions, out) == [done |-> TRUE, err |-> err, revisions |-> revisions, out |-> out]

revisionList(webhooks, iopcrs, verbose, format, order, fails) ==
    IF "newKubeClient" \in fails THEN Listed("newKubeClient", NoRevisions, <<>>)
    ELSE IF "getWebhooks" \in fails THEN Listed("getWebhooks", NoRevisions, <<>>)
    ELSE LET byHook == revisionsOfHooks(webhooks, 1, NoRevisions)
         IN IF "getAllIstioOperatorCRs" \in fails
            THEN Listed("getAllIstioOperatorCRs", byHook, <<>>)
            ELSE LET byCR == revisionsOfCRs(iopcrs, 1, byHook, verbose, fails)
                 IN IF byCR.err # "nil" THEN Listed(byCR.err, byCR.revisions, <<>>)
                    ELSE LET p == IF format = "json" THEN printJSON(byCR.revisions, fails)
                                  ELSE printRevisionInfoTable(verbose, byCR.revisions, order, fails)
                         IN Listed(p.err, byCR.revisions, p.out)

\* the orders in which the range statement may visit the revisions
RevisionOrders == {<<"<default>", "canary", "stable">>, <<"stable", "canary", "<default>">>}

ListFailures ==
    {{}, {"getWebhooks"}, {"getDiffs"}, {"Write"}, {"newKubeClient"}, {"getAllIstioOperatorCRs"},
     {"MarshalIndent"}}

NotListed == [done |-> FALSE, err |-> "nil", revisions |-> NoRevisions, out |-> <<>>]

RlIdle ==
    /\ rlHooks = <<>> /\ rlCRs = <<>> /\ rlVerbose = FALSE /\ rlFormat = "table"
    /\ rlOrder = <<>> /\ rlFails = {} /\ rlRes = NotListed

\* a run of istioctl x revision list
RevisionListCall ==
    /\ ~rlRes.done
    /\ rlOrder # <<>>
    /\ rlRes' = revisionList(rlHooks, rlCRs, rlVerbose, rlFormat, rlOrder, rlFails)
    /\ UNCHANGED <<rlHooks, rlCRs, rlVerbose, rlFormat, rlOrder, rlFails>>
    /\ UNCHANGED <<xdsVars, swVars, dfVars, vlVars, bbVars, argVars, gwVars, rdVars, acVars, pwVars, wkVars>>

CliIdle == BbIdle /\ ArgIdle /\ GwIdle /\ RdIdle /\ AcIdle /\ PwIdle /\ WkIdle /\ RlIdle

(***************************************************************************)
(* Specifications                                                          *)
(***************************************************************************)
InitStatus ==
    /\ XdsIdle /\ DfIdle /\ VlIdle /\ CliIdle
    /\ writer \in {"StatusWriter", "XdsStatusWriter"}
    /\ IF writer = "StatusWriter"
       THEN /\ statuses \in StatusMaps
            /\ XDSCols \in XDSColChoices
            /\ drs = NoMap
            /\ pending = DOMAIN statuses
       ELSE /\ statuses = NoMap
            /\ XDSCols = <<>>
            /\ drs \in ResponseMaps
            /\ pending = DOMAIN drs
    /\ fullStatus = <<>> /\ hasTab = FALSE /\ rawOut = <<>> /\ tabOut = NoOutput
    /\ swPc = "gather"

NextStatus == SW_Gather \/ SW_Sort \/ SW_Print \/ XW_Gather \/ XW_Print

SpecStatus == InitStatus /\ [][NextStatus]_vars

InitDiff ==
    /\ XdsIdle /\ SwIdle /\ VlIdle /\ CliIdle
    /\ dfObj \in Trees(MaxDepth)
    /\ dfOrig \in Trees(MaxDepth)
    /\ dfOrder \in KeyOrders
    /\ dfRes = NotWalked

NextDiff == DiffWalkCall

SpecDiff == InitDiff /\ [][NextDiff]_vars

\* requiredValues is a package variable; the table shipped is empty
InitValidate ==
    /\ XdsIdle /\ SwIdle /\ DfIdle /\ CliIdle
    /\ structPtr \in RootChoices
    /\ validations \in {DefaultValidations, CustomValidations}
    /\ requiredValues \in RequiredChoices
    /\ checkRequired \in BOOLEAN
    /\ mapOrder \in MapOrders
    /\ vlRes = NotValidated

NextValidate == ValidateCall

SpecValidate == InitValidate /\ [][NextValidate]_vars

InitXds == XdsIdle /\ SwIdle /\ DfIdle /\ VlIdle /\ CliIdle

NextXds == XdsStatusCall

SpecXds == InitXds /\ [][NextXds]_vars

\* processBundle and writeBootstrapBundle take the bundle alone; the remote
\* directory, the SSH failures and --start-istio-proxy matter to the copy
InitBundle ==
    /\ XdsIdle /\ SwIdle /\ DfIdle /\ VlIdle /\ ArgIdle /\ GwIdle /\ RdIdle /\ AcIdle /\ PwIdle /\ WkIdle /\ RlIdle
    /\ bbOp \in {"processBundle", "writeBootstrapBundle", "copyBootstrapBundle"}
    /\ bundle \in Bundles
    /\ remoteDir \in IF bbOp = "writeBootstrapBundle" THEN {<<>>}
                     ELSE {defaultProxyConfigDir, <<"/etc/istio-proxy">>}
    /\ failing \in IF bbOp = "processBundle" THEN {{}} ELSE SUBSET FailPoints
    /\ startIstioProxy \in IF bbOp = "copyBootstrapBundle" THEN BOOLEAN ELSE {FALSE}
    /\ items = NoItems /\ writes = <<>> /\ sshLog = <<>> /\ bbRes = NotRun

NextBundle == ProcessBundleCall \/ WriteBootstrapBundleCall \/ CopyBootstrapBundleCall

SpecBundle == InitBundle /\ [][NextBundle]_vars

InitArgs ==
    /\ XdsIdle /\ SwIdle /\ DfIdle /\ VlIdle /\ BbIdle /\ GwIdle /\ RdIdle /\ AcIdle /\ PwIdle /\ WkIdle /\ RlIdle
    /\ nargs \in 0..MaxArgs
    /\ flags \in CommandLines
    /\ argRes = NotChecked

NextArgs == ArgsCall

SpecArgs == InitArgs /\ [][NextArgs]_vars

InitGateway ==
    /\ XdsIdle /\ SwIdle /\ DfIdle /\ VlIdle /\ BbIdle /\ ArgIdle /\ RdIdle /\ AcIdle /\ PwIdle /\ WkIdle /\ RlIdle
    /\ meshNetworks \in MeshNetworks
    /\ globalNetwork = "net-1"
    /\ ingressService \in {"", "custom-ingress"}
    /\ services \in Clusters
    /\ gwRes = NotResolved

NextGateway == GatewayAddressCall

SpecGateway == InitGateway /\ [][NextGateway]_vars

InitDescribe ==
    /\ XdsIdle /\ SwIdle /\ DfIdle /\ VlIdle /\ BbIdle /\ ArgIdle /\ GwIdle /\ AcIdle /\ PwIdle /\ WkIdle /\ RlIdle
    /\ sections \in SeqsUpTo(KnownSections \cup {"BOGUS"}, MaxSections) \ {<<>>}
    /\ output \in {"table", "json"}
    /\ fetchFails \in SUBSET Fetches
    /\ printFails \in SUBSET (Range(sections) \cap FailingPrinters)
    /\ rdRes = NotDescribed

NextDescribe == DescribeCall

SpecDescribe == InitDescribe /\ [][NextDescribe]_vars

InitAddon ==
    /\ XdsIdle /\ SwIdle /\ DfIdle /\ VlIdle /\ BbIdle /\ ArgIdle /\ GwIdle /\ RdIdle /\ PwIdle /\ WkIdle /\ RlIdle
    /\ acVal \in AddonValues
    /\ acOrder \in AddonOrders(acVal)
    /\ acRes = [done |-> FALSE, errs |-> <<>>]

NextAddon == ValidateAddonCall

SpecAddon == InitAddon /\ [][NextAddon]_vars

InitPaths ==
    /\ XdsIdle /\ SwIdle /\ DfIdle /\ VlIdle /\ BbIdle /\ ArgIdle /\ GwIdle /\ RdIdle /\ AcIdle /\ WkIdle /\ RlIdle
    /\ pwRoot \in DeepSpecs
    /\ pwOrder \in MapOrders
    /\ pwGrowth \in Growths
    /\ pwRes = NotWalkedPaths

NextPaths == ValidatePathsCall

SpecPaths == InitPaths /\ [][NextPaths]_vars

\* Trees that differ from their baseline at one leaf: the leaf "b" under a
\* chain of map keys and sequence indices, the baseline holding "a" there.
KeyBackslash == <<"y", "\\">>

KeyZ == <<"z">>

PathKeys == {KeyX, KeyYZ, KeyBackslash, KeyZ}

Segments == {<<"key", key>> : key \in PathKeys} \cup {<<"idx", <<"0">>>>}

RECURSIVE Chain(_, _)
Chain(loc, leaf) ==
    IF loc = <<>> THEN leaf
    ELSE IF Head(loc)[1] = "key"
    THEN Map([key \in {Head(loc)[2]} |-> Chain(Tail(loc), leaf)])
    ELSE List(<<Chain(Tail(loc), leaf)>>)

ChainLocs == SeqsUpTo(Segments, MaxDepth)

PathKeyOrders == {<<KeyX, KeyYZ, KeyBackslash, KeyZ>>, <<KeyZ, KeyBackslash, KeyYZ, KeyX>>}

InitDiffPaths ==
    /\ XdsIdle /\ SwIdle /\ VlIdle /\ CliIdle
    /\ \E loc \in ChainLocs :
        /\ dfObj = Chain(loc, Str(<<"b">>))
        /\ dfOrig \in {Chain(loc, Str(<<"a">>)), Chain(loc, Num(<<"1">>))}
    /\ dfOrder \in PathKeyOrders
    /\ dfRes = NotWalked

SpecDiffPaths == InitDiffPaths /\ [][NextDiff]_vars

InitWorkloads ==
    /\ XdsIdle /\ SwIdle /\ DfIdle /\ VlIdle /\ BbIdle /\ ArgIdle /\ GwIdle /\ RdIdle /\ AcIdle /\ PwIdle /\ RlIdle
    /\ wkEntries \in EntryLists
    /\ wkOutput \in Outputs
    /\ wkFails \in FailureChoices
    /\ wkRes = NotStarted

NextWorkloads == RunECall

SpecWorkloads == InitWorkloads /\ [][NextWorkloads]_vars

InitRevisionList ==
    /\ XdsIdle /\ SwIdle /\ DfIdle /\ VlIdle /\ BbIdle /\ ArgIdle /\ GwIdle /\ RdIdle /\ AcIdle /\ PwIdle /\ WkIdle
    /\ rlHooks \in HookLists
    /\ rlCRs \in CRLists
    /\ rlVerbose \in BOOLEAN
    /\ rlFormat \in {"json", "table"}
    /\ rlOrder \in RevisionOrders
    /\ rlFails \in ListFailures
    /\ rlRes = NotListed

NextRevisionList == RevisionListCall

SpecRevisionList == InitRevisionList /\ [][NextRevisionList]_vars

(***************************************************************************)
(* Claims: status reconciler                                               *)
(***************************************************************************)
\* C1: for every (sent, acked), xdsStatus gives NOT SENT when sent is empty
\* whatever acked is, SYNCED when sent is non-empty and equals acked, STALE
\* (Never Acknowledged) when sent is non-empty and acked is empty, STALE when
\* both are non-empty and differ; two calls on the same pair give one label.
C1_XdsStatusTable ==
    label # "-" =>
        /\ (sent = "" => label = "NOT SENT")
        /\ (sent # "" /\ sent = acked => label = "SYNCED")
        /\ (sent # "" /\ acked = "" => label = "STALE (Never Acknowledged)")
        /\ (sent # "" /\ acked # "" /\ sent # acked => label = "STALE")
        /\ (prevCall.label # "-" /\ prevCall.sent = sent /\ prevCall.acked = acked
                => prevCall.label = label)

C1_Witness ==
    /\ sent = "" /\ acked = "n1" /\ label = "NOT SENT"
    /\ prevCall.sent = "n1" /\ prevCall.acked = "" /\ prevCall.label = "STALE (Never Acknowledged)"

\* the number of indices of s holding x
Count(s, x) == Cardinality({i \in DOMAIN s : s[i] = x})

\* every status of every node, labelled with its node (StatusWriter input)
ReportedStatuses == {pi \in Pilots \X (1..MaxPerNode) :
                        pi[1] \in DOMAIN statuses /\ pi[2] \in DOMAIN statuses[pi[1]].ss}

ExpectedRow(pi) == statusPrintln(XDSCols, [pilot |-> pi[1], status |-> statuses[pi[1]].ss[pi[2]]])

\* every ClientConfig of every response, labelled with its node (XdsStatusWriter input)
ReportedConfigs == {pi \in Pilots \X (1..MaxResources) :
                        pi[1] \in DOMAIN drs /\ pi[2] \in DOMAIN drs[pi[1]].Resources}

ExpectedXdsRow(pi) == xdsStatusPrintln(xdsWriterStatus(drs[pi[1]], drs[pi[1]].Resources[pi[2]]))

AllClientConfig ==
    \A pi \in ReportedConfigs : drs[pi[1]].Resources[pi[2]].TypeUrl = ClientConfigURL

\* C9: when PrintAll has finished, the printed rows hold every proxy status of
\* every node exactly once, labelled with its node, in non-decreasing proxyID
\* order, whatever the order in which the nodes were iterated (XdsStatusWriter:
\* when the responses carry ClientConfig resources only).
C9_RowsMergedSorted ==
    /\ (writer = "StatusWriter" /\ swPc = "done") =>
        /\ Len(tabOut.rows) = Cardinality(ReportedStatuses)
        /\ \A pi \in ReportedStatuses :
            Count(tabOut.rows, ExpectedRow(pi)) =
                Cardinality({qi \in ReportedStatuses : ExpectedRow(qi) = ExpectedRow(pi)})
        /\ \A i, j \in DOMAIN tabOut.rows :
            i < j => ~StrLess(tabOut.rows[j].ProxyID, tabOut.rows[i].ProxyID)
    /\ (writer = "XdsStatusWriter" /\ swPc = "done" /\ AllClientConfig) =>
        /\ Len(tabOut.rows) = Cardinality(ReportedConfigs)
        /\ \A pi \in ReportedConfigs :
            Count(tabOut.rows, ExpectedXdsRow(pi)) =
                Cardinality({qi \in ReportedConfigs : ExpectedXdsRow(qi) = ExpectedXdsRow(pi)})
        /\ \A i, j \in DOMAIN tabOut.rows :
            i < j => ~StrLess(tabOut.rows[j][1], tabOut.rows[i][1])

C9_Witness ==
    /\ writer = "StatusWriter" /\ swPc = "done"
    /\ Len(tabOut.rows) = 2
    /\ tabOut.rows[1].ProxyID = "proxy-a" /\ tabOut.rows[1].pilot = "istiod-2"
    /\ tabOut.rows[2].ProxyID = "proxy-b" /\ tabOut.rows[2].pilot = "istiod-1"

\* C10: for each requested column among CDS, LDS, RDS and EDS the printed
\* label comes from the per-type entry of Statuses when the proxy has one, and
\* from the legacy sent/acked fields only when it has none.
C10_PerTypePreferred ==
    (writer = "StatusWriter" /\ swPc = "done") =>
        \A k \in DOMAIN tabOut.rows : \A c \in DOMAIN XDSCols :
            LET st == fullStatus[k].status
                ty == XDSCols[c]
                legacy == CASE ty = "CDS" -> xdsStatus(st.ClusterSent, st.ClusterAcked)
                            [] ty = "LDS" -> xdsStatus(st.ListenerSent, st.ListenerAcked)
                            [] ty = "RDS" -> xdsStatus(st.RouteSent, st.RouteAcked)
                            [] ty = "EDS" -> xdsStatus(st.EndpointSent, st.EndpointAcked)
                            [] OTHER -> ""
            IN ty \in LegacyCols =>
                tabOut.rows[k].cols[c] =
                    IF ty \in DOMAIN st.Statuses
                    THEN xdsStatus(st.Statuses[ty].NonceSent, st.Statuses[ty].NonceAcked)
                    ELSE legacy

(***************************************************************************)
(* Claims: diff walker                                                     *)
(***************************************************************************)
\* The locations of the scalar leaves of a tree, each a sequence of segments
\* <<"key", k>> or <<"idx", <<i>>>>, stated without reference to diffWalk.
RECURSIVE LeafLocs(_)
LeafLocs(t) ==
    CASE t.k = "map" ->
            UNION {{<<<<"key", key>>>> \o p : p \in LeafLocs(t.m[key])} : key \in DOMAIN t.m}
      [] t.k = "seq" ->
            UNION {{<<<<"idx", <<ToString(i - 1)>>>>>> \o p : p \in LeafLocs(t.e[i])} : i \in DOMAIN t.e}
      [] OTHER -> {<<>>}

\* the value a tree holds at a location; Nil where the tree has no such
\* location (a container of another shape on the way, a missing key or index)
RECURSIVE ValueAt(_, _)
ValueAt(t, p) ==
    IF p = <<>> THEN t
    ELSE LET seg == Head(p)
         IN IF seg[1] = "key"
            THEN IF t.k = "map" /\ seg[2] \in DOMAIN t.m
                 THEN ValueAt(t.m[seg[2]], Tail(p)) ELSE Nil
            ELSE IF t.k = "seq" /\ \E i \in DOMAIN t.e : <<ToString(i - 1)>> = seg[2]
                 THEN ValueAt(t.e[CHOOSE i \in DOMAIN t.e : <<ToString(i - 1)>> = seg[2]], Tail(p))
                 ELSE Nil

\* the display path of a location: field names joined by '.', no leading
\* separator, [index] appended directly, separators inside a key escaped
RECURSIVE DisplayPath(_, _)
DisplayPath(p, first) ==
    IF p = <<>> THEN <<>>
    ELSE LET seg == Head(p)
         IN (IF seg[1] = "key"
             THEN (IF first THEN <<>> ELSE <<".">>) \o ReplaceAllSep(seg[2])
             ELSE <<"[">> \o seg[2] \o <<"]">>)
            \o DisplayPath(Tail(p), FALSE)

RecordsAt(path) == {i \in DOMAIN dfRes.recs : dfRes.recs[i].Path = path}

\* C6: diffWalk on identical inputs (current = baseline = X, X any nested tree
\* of maps, sequences and scalars) returns an empty record list and does not
\* fail.
C6_DiffIdentityEmpty ==
    (dfRes.done /\ dfObj = dfOrig) => (~dfRes.panic /\ dfRes.recs = <<>>)

C6_Witness ==
    /\ dfRes.done /\ dfObj = dfOrig
    /\ dfObj.k = "map" /\ DOMAIN dfObj.m = Keys
    /\ dfObj.m[KeyX].k = "seq" /\ Len(dfObj.m[KeyX].e) = 2
    /\ dfObj.m[KeyX].e[1] = Num(<<"1">>)

\* C7: no record is emitted for a location without baseline: every record of
\* the result names a leaf of the current tree at which the baseline tree
\* holds a non-nil value; so a nil baseline, a baseline that is no map under
\* a current map, or a key missing from the baseline yields no record for the
\* branch and its descendants.
C7_NoRecordWithoutBaseline ==
    dfRes.done =>
        /\ \A i \in DOMAIN dfRes.recs :
            \E p \in LeafLocs(dfObj) :
                /\ DisplayPath(p, TRUE) = dfRes.recs[i].Path
                /\ ValueAt(dfOrig, p) # Nil
        /\ (dfOrig = Nil => dfRes.recs = <<>>)
        /\ (dfObj.k = "map" /\ dfOrig.k # "map" => dfRes.recs = <<>>)

C7_Witness ==
    /\ dfRes.done /\ ~dfRes.panic /\ dfRes.recs = <<>>
    /\ dfObj.k = "map" /\ DOMAIN dfObj.m = Keys
    /\ dfObj.m[KeyX].k = "seq" /\ Len(dfObj.m[KeyX].e) = 2
    /\ dfObj.m[KeyX].e[1] = Str(<<"b">>)
    /\ dfOrig.k = "map" /\ DOMAIN dfOrig.m = {KeyX} /\ dfOrig.m[KeyX] = Nil

\* C8: for a scalar current value diffWalk emits exactly one record, carrying
\* the current path, if and only if the baseline at that location is non-nil
\* and differs from the current value, and none otherwise; the record's value
\* is the quoted string for a string and the default rendering for another
\* scalar.  Checked for the outermost call and for every leaf of a walk that
\* returns.
C8_ScalarRecord ==
    (dfRes.done /\ ~dfRes.panic) =>
        \A p \in LeafLocs(dfObj) :
            LET v == ValueAt(dfObj, p)
                orig == ValueAt(dfOrig, p)
                at == RecordsAt(DisplayPath(p, TRUE))
            IN IF orig # Nil /\ ~SameScalar(v, orig)
               THEN /\ Cardinality(at) = 1
                    /\ \A i \in at :
                        dfRes.recs[i].Value =
                            IF v.k = "str" THEN <<"\"">> \o v.v \o <<"\"">>
                            ELSE IF v.k = "nil" THEN <<"<nil>">> ELSE v.v
               ELSE at = {}

C8_Witness ==
    /\ dfRes.done /\ ~dfRes.panic
    /\ dfObj.k = "map" /\ DOMAIN dfObj.m = Keys /\ dfObj.m[KeyX] = Num(<<"1">>)
    /\ dfOrig.k = "map" /\ DOMAIN dfOrig.m = Keys /\ dfOrig.m[KeyX].k = "map"
    /\ dfOrig.m[KeyYZ] = Str(<<"a">>)
    /\ Len(dfRes.recs) = 1
    /\ dfRes.recs[1] = [Path |-> <<"x">>, Value |-> <<"1">>]

C8_WitnessString ==
    /\ dfRes.done /\ dfObj = Str(<<"b">>) /\ dfOrig = Str(<<"a">>)
    /\ dfRes.recs = <<[Path |-> <<>>, Value |-> <<"\"", "b", "\"">>]>>

\* C23: diffWalk completes without failure for every pair of current and
\* baseline trees, also when a current sequence has more elements than the
\* corresponding baseline sequence: the elements at indices the baseline does
\* not have produce no records and the remaining elements are still compared.
C23_WalkCompletes ==
    dfRes.done =>
        /\ ~dfRes.panic
        /\ \A p \in LeafLocs(dfObj) :
            (ValueAt(dfOrig, p) # Nil /\ ~SameScalar(ValueAt(dfObj, p), ValueAt(dfOrig, p))) =>
                RecordsAt(DisplayPath(p, TRUE)) # {}

\* a walk that returns has found no current sequence longer than its baseline
RECURSIVE LongerSeq(_, _)
LongerSeq(t, o) ==
    CASE t.k = "map" /\ o.k = "map" ->
            \E key \in DOMAIN t.m \cap DOMAIN o.m : LongerSeq(t.m[key], o.m[key])
      [] t.k = "seq" /\ o.k = "seq" ->
            \/ Len(t.e) > Len(o.e)
            \/ \E i \in DOMAIN t.e : LongerSeq(t.e[i], o.e[i])
      [] OTHER -> FALSE

C23_PanicOnlyOnLongerSeq == dfRes.done => (dfRes.panic => LongerSeq(dfObj, dfOrig))

\* the segments of a display path: the path is split at every separator that
\* is not escaped, the escapes are removed, and an [index] ends a segment
RECURSIVE ParsePath(_, _, _)
ParsePath(path, cur, acc) ==
    LET close == IF cur = <<>> THEN acc ELSE Append(acc, <<"key", cur>>)
    IN IF path = <<>> THEN close
       ELSE IF Len(path) >= 2 /\ path[1] = "\\" /\ path[2] = "."
       THEN ParsePath(SubSeq(path, 3, Len(path)), cur \o <<".">>, acc)
       ELSE IF path[1] = "." THEN ParsePath(Tail(path), <<>>, close)
       ELSE IF Len(path) >= 3 /\ path[1] = "[" /\ path[3] = "]"
       THEN ParsePath(SubSeq(path, 4, Len(path)), <<>>, Append(close, <<"idx", <<path[2]>>>>))
       ELSE ParsePath(Tail(path), Append(cur, path[1]), acc)

\* the location of the one differing leaf of a chain
RECURSIVE ChainLoc(_)
ChainLoc(t) ==
    CASE t.k = "map" -> LET key == CHOOSE k \in DOMAIN t.m : TRUE
                        IN <<<<"key", key>>>> \o ChainLoc(t.m[key])
      [] t.k = "seq" -> <<<<"idx", <<"0">>>>>> \o ChainLoc(t.e[1])
      [] OTHER -> <<>>

\* C24: the path of a diff record has no leading separator, a '.' between
\* successive field names and a directly appended [index] for sequence
\* elements, and every separator inside a map key is escaped, so that
\* splitting the path at the separators that are not escaped gives back the
\* original key sequence, for every key sequence.
C24_PathRoundTrip ==
    (dfRes.done /\ ~dfRes.panic) =>
        /\ Len(dfRes.recs) = 1
        /\ dfRes.recs[1].Path = DisplayPath(ChainLoc(dfObj), TRUE)
        /\ ParsePath(dfRes.recs[1].Path, <<>>, <<>>) = ChainLoc(dfObj)

\* the same for the keys that hold no backslash
C24_RoundTripWithoutBackslash ==
    (dfRes.done /\ ~dfRes.panic
        /\ \A i \in DOMAIN ChainLoc(dfObj) : ChainLoc(dfObj)[i] # <<"key", <<"y", "\\">>>>) =>
        /\ Len(dfRes.recs) = 1
        /\ dfRes.recs[1].Path = DisplayPath(ChainLoc(dfObj), TRUE)
        /\ ParsePath(dfRes.recs[1].Path, <<>>, <<>>) = ChainLoc(dfObj)

(***************************************************************************)
(* Claims: tree walker                                                     *)
(***************************************************************************)
PtrToStruct(value) == value.k = "ptr" /\ ~value.isnil /\ value.p.k = "struct"

\* The leaves the traversal encounters in a struct, each <<path, value>>:
\* scalar and interface fields, a map as a whole and each of its entries,
\* slice elements that are no nested node, set pointers to something that is no
\* struct; fields tagged json:"-" and unset pointers hold none.  Stated as a
\* set, without reference to Validate.
RECURSIVE LeavesOfStruct(_, _)
LeavesOfField(fld, path) ==
    LET newPath == Append(path, <<fld.Name>>)
        kind == IF fld.iface THEN "interface" ELSE fld.val.k
    IN IF fld.json = "-" THEN {}
       ELSE CASE kind = "struct" -> LeavesOfStruct(fld.val, newPath)
              [] kind = "map" ->
                    {<<newPath, fld.val>>} \cup
                    {<<Append(newPath, key), RValue(fld.val.m[key])>> : key \in DOMAIN fld.val.m}
              [] kind = "slice" ->
                    UNION {LET el == fld.val.s[i]
                               elPath == Append(path, <<fld.Name, "[", ToString(i - 1), "]">>)
                           IN IF PtrToStruct(el) THEN LeavesOfStruct(el.p, elPath)
                              ELSE IF el.k \in {"struct", "ptr"} THEN {}
                              ELSE {<<elPath, el>>} : i \in DOMAIN fld.val.s}
              [] kind = "ptr" ->
                    IF fld.val.isnil THEN {}
                    ELSE IF fld.val.p.k = "struct" THEN LeavesOfStruct(fld.val.p, newPath)
                    ELSE {<<newPath, RValue(fld.val)>>}
              [] OTHER -> {<<newPath, fld.val>>}

LeavesOfStruct(st, path) == UNION {LeavesOfField(st.f[i], path) : i \in DOMAIN st.f}

Leaves == IF PtrToStruct(structPtr) THEN LeavesOfStruct(structPtr.p, <<>>) ELSE {}

\* the errors of the result reported for a path, in either display form
ErrorsAt(path) ==
    {i \in DOMAIN vlRes.errs :
        vlRes.errs[i].path \in {PathString(path), ToYAMLPathString(PathString(path))}}

RECURSIVE LocationsOfStruct(_, _)
LocationsOfField(fld, path) ==
    LET newPath == Append(path, <<fld.Name>>)
    IN CASE fld.val.k = "struct" -> LocationsOfStruct(fld.val, newPath)
         [] fld.val.k = "map" ->
                {<<newPath, fld.val>>} \cup
                {<<Append(newPath, key), fld.val.m[key]>> : key \in DOMAIN fld.val.m}
         [] fld.val.k = "slice" ->
                UNION {LET el == fld.val.s[i]
                           elPath == Append(path, <<fld.Name, "[", ToString(i - 1), "]">>)
                       IN IF PtrToStruct(el) THEN LocationsOfStruct(el.p, elPath)
                          ELSE {<<elPath, el>>} : i \in DOMAIN fld.val.s}
         [] fld.val.k = "ptr" ->
                IF PtrToStruct(fld.val) THEN LocationsOfStruct(fld.val.p, newPath)
                ELSE {<<newPath, fld.val>>}
         [] OTHER -> {<<newPath, fld.val>>}

LocationsOfStruct(st, path) ==
    UNION {LocationsOfField(st.f[i], path) : i \in {j \in DOMAIN st.f : st.f[j].json # "-"}}

\* empty or absent: the empty string, a nil value, an unset optional reference
EmptyOrAbsent(value) ==
    \/ value.k = "nil"
    \/ value.k = "string" /\ value.v = ""
    \/ value.k \in {"ptr", "map"} /\ value.isnil

RequiredErrors(path) ==
    {i \in DOMAIN vlRes.errs :
        vlRes.errs[i] = Err("required but not set", ToYAMLPathString(PathString(path)))}

EmptyValue(value) ==
    LET held == IF value.k = "reflect.Value" THEN value.r ELSE value
    IN EmptyOrAbsent(held)

IsRequired(path) == checkRequired /\ PathString(path) \in requiredValues

HasRule(path) ==
    \/ PathString(path) \in DOMAIN validations
    \/ \E pat \in DOMAIN validations :
        /\ Len(pat) = Len(PathString(path))
        /\ \A i \in DOMAIN pat : pat[i] = PathString(path)[i] \/ pat[i] = "*"

\* C4: validateLeaf never invokes a rule function on an empty value; an empty
\* value whose path is not required (or with checkRequired false) yields no
\* error whether or not a rule is registered for the path, and a non-empty
\* leaf without matching rule yields no error.
C4_NoRuleOnEmptyValue ==
    vlRes.done =>
        /\ \A i \in DOMAIN vlRes.calls : ~EmptyValue(vlRes.calls[i].val)
        /\ \A lf \in Leaves :
            /\ (EmptyValue(lf[2]) /\ ~IsRequired(lf[1])) =>
                    /\ ErrorsAt(lf[1]) = {}
                    /\ \A i \in DOMAIN vlRes.calls : vlRes.calls[i].path # PathString(lf[1])
            /\ (~EmptyValue(lf[2]) /\ ~HasRule(lf[1])) => ErrorsAt(lf[1]) = {}

C4_Witness ==
    /\ vlRes.done /\ PtrToStruct(structPtr) /\ checkRequired
    /\ structPtr.p.f[1].val = GStr("") /\ <<"Hub">> \notin requiredValues
    /\ structPtr.p.f[2].val = GNil /\ <<"Tag">> \in requiredValues
    /\ validations = CustomValidations
    /\ structPtr.p.f[6].val = GSlice(<<GStr("")>>)
    /\ structPtr.p.f[5].val.isnil = FALSE
    /\ vlRes.errs = <<Err("required but not set", <<"tag">>)>>

Mismatch == {"expected ptr", "expected struct"}

\* C5 as stated: a root that is non-nil and no pointer to a struct (a struct
\* by value, a scalar, a pointer to something that is no struct) gives a
\* type-mismatch error, and no content is validated.
C5_NonStructPtrRootRejected ==
    (vlRes.done /\ structPtr # GNil /\ ~PtrToStruct(structPtr)) =>
        /\ Len(vlRes.errs) = 1 /\ vlRes.errs[1].msg \in Mismatch
        /\ vlRes.calls = <<>>

\* C5 amended: a root that is non-nil and neither a struct by value nor a
\* pointer to a struct (a scalar or another value that is no pointer, a pointer
\* to something that is no struct) gives exactly one type-mismatch error; a
\* struct passed by value is skipped without error; in both cases no content
\* is validated.
C5_RootRejectedOrSkipped ==
    (vlRes.done /\ structPtr # GNil /\ ~PtrToStruct(structPtr)) =>
        /\ vlRes.calls = <<>>
        /\ IF structPtr.k = "struct"
           THEN vlRes.errs = <<>>
           ELSE /\ Len(vlRes.errs) = 1
                /\ vlRes.errs[1].msg = IF structPtr.k = "ptr" THEN "expected struct" ELSE "expected ptr"
                /\ vlRes.incs = 1

C5_Witness ==
    /\ vlRes.done /\ structPtr = GPtr(GSlice(<<GStr("bad tag!")>>))
    /\ validations = CustomValidations
    /\ vlRes.errs = <<Err("expected struct", <<>>)>>

C5_WitnessSkipped ==
    /\ vlRes.done /\ structPtr.k = "struct"
    /\ structPtr.f[1].val = GStr("bad hub!")
    /\ vlRes.errs = <<>>

\* a nested structured node: a struct value or a reference to a struct
NestedNode(el) == el.k = "struct" \/ PtrToStruct(el)

\* The leaves held in the slices of a struct, each <<path, value>>: the own
\* leaves of an element that is a nested node, under field[i], and every other
\* element itself at field[i].
RECURSIVE SliceLeavesOfStruct(_, _)
SliceLeavesOfField(fld, path) ==
    LET newPath == Append(path, <<fld.Name>>)
    IN IF fld.json = "-" \/ fld.iface THEN {}
       ELSE CASE fld.val.k = "struct" -> SliceLeavesOfStruct(fld.val, newPath)
              [] PtrToStruct(fld.val) -> SliceLeavesOfStruct(fld.val.p, newPath)
              [] fld.val.k = "slice" ->
                    UNION {LET el == fld.val.s[i]
                               elPath == Append(path, <<fld.Name, "[", ToString(i - 1), "]">>)
                           IN IF el.k = "struct" THEN LeavesOfStruct(el, elPath)
                              ELSE IF PtrToStruct(el) THEN LeavesOfStruct(el.p, elPath)
                              ELSE {<<elPath, el>>} : i \in DOMAIN fld.val.s}
              [] OTHER -> {}

SliceLeavesOfStruct(st, path) == UNION {SliceLeavesOfField(st.f[i], path) : i \in DOMAIN st.f}

\* C21: for every slice field and every index i, Validate recurses into an
\* element that is a nested structured node (a struct value or a reference to
\* a struct) and applies the rules to the element's own leaves under field[i],
\* and validates every other element as a leaf at field[i]: the result holds
\* exactly the errors of the rules for each of these leaves, so that no element
\* of a slice is left unvalidated.
C21_SliceElementsValidated ==
    (vlRes.done /\ PtrToStruct(structPtr)) =>
        \A lf \in SliceLeavesOfStruct(structPtr.p, <<>>) :
            LET own == validateLeaf(validations, lf[1], lf[2], checkRequired).errs
            IN /\ \A j \in DOMAIN own : \E i \in DOMAIN vlRes.errs : vlRes.errs[i] = own[j]
               /\ Cardinality(ErrorsAt(lf[1])) = Len(own)

\* the same for the slices whose elements are references to structs or scalars
C21_PointerAndScalarElements ==
    (vlRes.done /\ PtrToStruct(structPtr)
        /\ structPtr.p.f[6].val \in {GSlice(<<>>), GSlice(<<GStr("1.1.0"), GStr("bad tag!")>>), GSlice(<<GStr("")>>)}
        /\ (structPtr.p.f[4].val.isnil
              \/ \A i \in DOMAIN structPtr.p.f[4].val.p.f[1].val.s :
                    structPtr.p.f[4].val.p.f[1].val.s[i].k = "ptr")) =>
        \A lf \in SliceLeavesOfStruct(structPtr.p, <<>>) :
            LET own == validateLeaf(validations, lf[1], lf[2], checkRequired).errs
            IN /\ \A j \in DOMAIN own : \E i \in DOMAIN vlRes.errs : vlRes.errs[i] = own[j]
               /\ Cardinality(ErrorsAt(lf[1])) = Len(own)

\* C22: during a Validate walk every rule function receives a Path equal to
\* the exact root-to-leaf segment sequence of the leaf being validated, and a
\* Path already handed to a rule function is never changed by the walker's
\* later visits to sibling fields, map keys or slice elements: at the end of
\* the walk every handed slice still shows the segments it showed at the call.
C22_HandedPathsStable ==
    pwRes.done =>
        \A i \in DOMAIN pwRes.handed :
            /\ pwRes.handed[i].path = pwRes.handed[i].loc
            /\ Content(pwRes.h, pwRes.handed[i].s) = pwRes.handed[i].path

\* the first half alone: the Path is exact at the moment of the call
C22_HandedPathsExact ==
    pwRes.done => \A i \in DOMAIN pwRes.handed : pwRes.handed[i].path = pwRes.handed[i].loc

\* without spare capacity no two branches share an array
C22_StableWithExactGrowth ==
    (pwRes.done /\ pwGrowth = "exact") =>
        \A i \in DOMAIN pwRes.handed : Content(pwRes.h, pwRes.handed[i].s) = pwRes.handed[i].path

(***************************************************************************)
(* Claims: pass-through of other payloads                                  *)
(***************************************************************************)
\* the payload bytes of a response, each resource once, in resource order
Payload(dr) == [k \in DOMAIN dr.Resources |-> dr.Resources[k].Value]

NodeOrders ==
    {o \in SeqsUpTo(DOMAIN drs, Cardinality(DOMAIN drs)) :
        Len(o) = Cardinality(DOMAIN drs) /\ \A i, j \in DOMAIN o : i # j => o[i] # o[j]}

RECURSIVE PayloadsIn(_)
PayloadsIn(order) ==
    IF order = <<>> THEN <<>> ELSE Payload(drs[Head(order)]) \o PayloadsIn(Tail(order))

NoClientConfig ==
    /\ ReportedConfigs # {}
    /\ \A pi \in ReportedConfigs : drs[pi[1]].Resources[pi[2]].TypeUrl # ClientConfigURL

\* C11: when the responses handed to XdsStatusWriter.PrintAll carry resources
\* of another type than ClientConfig, PrintAll does not fail and the output is
\* exactly the payload bytes of each response, each payload written once, in
\* resource order, and nothing else.
C11_PassthroughOnce ==
    (writer = "XdsStatusWriter" /\ swPc \in {"done", "error"} /\ NoClientConfig) =>
        /\ swPc = "done"
        /\ tabOut = NoOutput
        /\ \E order \in NodeOrders : rawOut = PayloadsIn(order)

(***************************************************************************)
(* Claims: sidecar-bootstrap bundles                                       *)
(***************************************************************************)
\* C12: processBundle returns exactly three files in the order sidecar.env,
\* istio-ca.pem, istio-token, each with dir equal to the remote directory,
\* with permissions 0644, 0644 and 0640 and with the bundle's environment
\* blob, CA certificate and service-account token as data.
C12_ThreeFiles ==
    (bbOp = "processBundle" /\ bbRes.done) =>
        LET f == items.filesToCopy
        IN /\ Len(f) = 3
           /\ \A i \in 1..3 : f[i].dir = remoteDir
           /\ <<f[1].name, f[2].name, f[3].name>> = <<"sidecar.env", "istio-ca.pem", "istio-token">>
           /\ <<f[1].perm, f[2].perm, f[3].perm>> = <<"0644", "0644", "0640">>
           /\ <<f[1].data, f[2].data, f[3].data>> =
                <<bundle.IstioProxyEnvironment, bundle.IstioCaCert, bundle.ServiceAccountToken>>

C12_Witness ==
    /\ bbOp = "processBundle" /\ bbRes.done
    /\ remoteDir = <<"/etc/istio-proxy">>
    /\ Len(items.filesToCopy) = 3 /\ items.filesToCopy[3].perm = "0640"

\* the words of a command line, split at the blanks
RECURSIVE SplitWords(_, _)
SplitWords(text, word) ==
    IF text = <<>> THEN <<word>>
    ELSE IF Head(text) = " " THEN <<word>> \o SplitWords(Tail(text), <<>>)
    ELSE SplitWords(Tail(text), Append(word, Head(text)))

FlagAt(words, flag) == {i \in DOMAIN words : words[i] = <<flag>>}

\* C13: processBundle returns exactly two commands in order: a non-required
\* 'docker rm --force <container>' and a required 'docker run' that mounts
\* <remoteDir>/istio-ca.pem and <remoteDir>/istio-token, takes
\* <remoteDir>/sidecar.env as env file, and has exactly one --add-host flag
\* per configured host alias, in alias order, each mapping the alias to the
\* ingress gateway address, followed by the image and then the proxy arguments.
C13_TwoCommands ==
    (bbOp = "processBundle" /\ bbRes.done) =>
        LET c == items.cmdsToExec
            w == SplitWords(c[2].cmd, <<>>)
            n == Len(w)
            hosts == bundle.IstioProxyHosts
            args == bundle.IstioProxyArgs
            first == n - Len(args) - 2 * Len(hosts)
        IN /\ Len(c) = 2
           /\ ~c[1].required
           /\ SplitWords(c[1].cmd, <<>>) =
                <<<<"docker">>, <<"rm">>, <<"--force">>, <<bundle.IstioProxyContainerName>>>>
           /\ c[2].required
           /\ w[1] = <<"docker">> /\ w[2] = <<"run">>
           /\ \E i \in FlagAt(w, "-v") :
                w[i + 1] = remoteDir \o <<"/istio-ca.pem", ":", "/var/run/secrets/istio/root-cert.pem">>
           /\ \E i \in FlagAt(w, "-v") :
                w[i + 1] = remoteDir \o <<"/istio-token", ":", "/var/run/secrets/tokens/istio-token">>
           /\ \E i \in FlagAt(w, "--env-file") : i < first /\ w[i + 1] = remoteDir \o <<"/sidecar.env">>
           /\ Cardinality(FlagAt(w, "--add-host")) = Len(hosts)
           /\ \A k \in DOMAIN hosts :
                /\ w[first + 2 * (k - 1)] = <<"--add-host">>
                /\ w[first + 2 * k - 1] = <<hosts[k], ":", bundle.IstioIngressGatewayAddress>>
           /\ w[n - Len(args)] = <<bundle.IstioProxyImage>>
           /\ \A j \in DOMAIN args : w[n - Len(args) + j] = <<args[j]>>

C13_Witness ==
    /\ bbOp = "processBundle" /\ bbRes.done
    /\ bundle.IstioProxyHosts = <<"zipkin.istio-system.svc", "istiod.istio-system.svc">>
    /\ bundle.IstioProxyArgs = <<"proxy", "sidecar">>
    /\ Len(items.cmdsToExec) = 2

BundlePaths ==
    <<<<"etc", "/", "sidecar.env">>, <<"etc", "/", "istio-ca.pem">>,
      <<"etc", "/", "istio-token">>, <<"bin", "/", "start-istio-proxy.sh">>>>

BundleNames == <<"sidecar.env", "istio-ca.pem", "istio-token", "start-istio-proxy.sh">>

FailingWrites == {i \in 1..4 : BundleNames[i] \in failing}

\* C14: writeBootstrapBundle invokes the write callback in the order
\* etc/sidecar.env, etc/istio-ca.pem, etc/istio-token,
\* bin/start-istio-proxy.sh, exactly once each when every write succeeds;
\* when a write fails it returns that error and performs no later write.
C14_WritesInOrder ==
    (bbOp = "writeBootstrapBundle" /\ bbRes.done) =>
        IF FailingWrites = {}
        THEN /\ bbRes.err = "nil"
             /\ [i \in DOMAIN writes |-> writes[i].filename] = BundlePaths
        ELSE LET k == CHOOSE i \in FailingWrites : \A j \in FailingWrites : i <= j
             IN /\ bbRes.err = BundleNames[k]
                /\ [i \in DOMAIN writes |-> writes[i].filename] = SubSeq(BundlePaths, 1, k)

C14_Witness ==
    /\ bbOp = "writeBootstrapBundle" /\ bbRes.done
    /\ failing = {"istio-ca.pem", "start-istio-proxy.sh"}
    /\ Len(writes) = 2 /\ bbRes.err = "istio-ca.pem"

C14_WitnessAll ==
    /\ bbOp = "writeBootstrapBundle" /\ bbRes.done /\ failing = {}
    /\ Len(writes) = 4 /\ bbRes.err = "nil"

\* the lines of a text
RECURSIVE SplitLines(_, _)
SplitLines(text, line) ==
    IF text = <<>> THEN IF line = <<>> THEN <<>> ELSE <<line>>
    ELSE IF Head(text) = "\n" THEN <<line>> \o SplitLines(Tail(text), <<>>)
    ELSE SplitLines(Tail(text), Append(line, Head(text)))

\* the script, when all four writes happened
Script == SplitLines(writes[4].content, <<>>)

\* what running the lines from i on executes when the commands in bad fail:
\* set -e and set +e switch errexit, and a failing command under errexit ends
\* the script
RECURSIVE RunLines(_, _, _, _, _)
RunLines(lines, i, errexit, bad, ran) ==
    IF i > Len(lines) THEN [ran |-> ran, stopped |-> FALSE]
    ELSE IF lines[i] = <<"set -e">> THEN RunLines(lines, i + 1, TRUE, bad, ran)
    ELSE IF lines[i] = <<"set +e">> THEN RunLines(lines, i + 1, FALSE, bad, ran)
    ELSE IF lines[i] \in bad
         THEN IF errexit THEN [ran |-> Append(ran, lines[i]), stopped |-> TRUE]
              ELSE RunLines(lines, i + 1, errexit, bad, Append(ran, lines[i]))
    ELSE IF \E k \in DOMAIN items.cmdsToExec : items.cmdsToExec[k].cmd = lines[i]
         THEN RunLines(lines, i + 1, errexit, bad, Append(ran, lines[i]))
    ELSE RunLines(lines, i + 1, errexit, bad, ran)

\* C15: the start-up script sets the config-directory variable before any
\* command and then lists the commands of processBundle in their order, each
\* immediately preceded by 'set -e' if and only if it is required and by
\* 'set +e' otherwise; a failing non-required command never stops the script
\* and a failing required command always does.
C15_ScriptToggles ==
    (bbOp = "writeBootstrapBundle" /\ bbRes.done /\ Len(writes) = 4) =>
        LET c == items.cmdsToExec
            at == [k \in DOMAIN c |-> {i \in DOMAIN Script : Script[i] = c[k].cmd}]
            var == {i \in DOMAIN Script :
                        Script[i] = <<offlineProxyConfigDirEnv, "=", "\"${BASE_DIR}/etc\"">>}
        IN /\ \A k \in DOMAIN c : Cardinality(at[k]) = 1
           /\ Cardinality(var) = 1
           /\ \A k \in DOMAIN c : \A i \in at[k] :
                /\ \A v \in var : v < i
                /\ i > 1 /\ Script[i - 1] = IF c[k].required THEN <<"set -e">> ELSE <<"set +e">>
                /\ \A l \in DOMAIN c : \A j \in at[l] : k < l => i < j
           /\ \A bad \in SUBSET {c[k].cmd : k \in DOMAIN c} :
                LET run == RunLines(Script, 1, FALSE, bad, <<>>)
                    req == {k \in DOMAIN c : c[k].required /\ c[k].cmd \in bad}
                IN IF req = {}
                   THEN ~run.stopped /\ run.ran = [k \in DOMAIN c |-> c[k].cmd]
                   ELSE LET k == CHOOSE m \in req : \A o \in req : m <= o
                        IN run.stopped /\ run.ran = [m \in 1..k |-> c[m].cmd]

C15_Witness ==
    /\ bbOp = "writeBootstrapBundle" /\ bbRes.done /\ Len(writes) = 4
    /\ Len(bundle.IstioProxyHosts) = 1
    /\ \E i, j \in DOMAIN Script : i < j /\ Script[i] = <<"set +e">> /\ Script[j] = <<"set -e">>

\* the commands copyBootstrapBundle executed once the files were copied
ExecutedCommands ==
    SelectSeq([i \in DOMAIN sshLog |-> IF sshLog[i].op = "Exec" THEN sshLog[i].cmd ELSE <<>>],
              LAMBDA cmd : \E k \in DOMAIN items.cmdsToExec : items.cmdsToExec[k].cmd = cmd)

FilesCopied == failing \cap {"dial", "mkdir", "sidecar.env", "istio-ca.pem", "istio-token"} = {}

\* C16: with start-istio-proxy enabled copyBootstrapBundle executes the
\* commands in list order over SSH; a failing non-required command is only
\* logged and the next command is still executed, a failing required command
\* aborts, its error is returned and no later command is executed; with
\* start-istio-proxy disabled no command is executed.
C16_CommandsOverSSH ==
    (bbOp = "copyBootstrapBundle" /\ bbRes.done /\ FilesCopied) =>
        LET c == items.cmdsToExec
            bad == {k \in DOMAIN c : CmdPoint(c, k) \in failing}
            req == {k \in bad : c[k].required}
        IN IF ~startIstioProxy
           THEN ExecutedCommands = <<>> /\ bbRes.err = "nil"
           ELSE IF req = {}
           THEN ExecutedCommands = [k \in DOMAIN c |-> c[k].cmd] /\ bbRes.err = "nil"
           ELSE LET k == CHOOSE m \in req : \A o \in req : m <= o
                IN /\ ExecutedCommands = [m \in 1..k |-> c[m].cmd]
                   /\ bbRes.err = CmdPoint(c, k)

C16_Witness ==
    /\ bbOp = "copyBootstrapBundle" /\ bbRes.done /\ startIstioProxy
    /\ failing = {"rm"} /\ Len(ExecutedCommands) = 2 /\ bbRes.err = "nil"

C16_WitnessRequired ==
    /\ bbOp = "copyBootstrapBundle" /\ bbRes.done /\ startIstioProxy
    /\ failing = {"rm", "run"} /\ Len(ExecutedCommands) = 2 /\ bbRes.err = "run"

\* the positions of the log holding an operation of a kind
OpsAt(kind) == {i \in DOMAIN sshLog : sshLog[i].op = kind}

Mkdirs == {i \in OpsAt("Exec") : sshLog[i].cmd[1] = "mkdir -p "}

Commands == OpsAt("Exec") \ Mkdirs

DirOf(i) == SubSeq(sshLog[i].path, 1, Len(sshLog[i].path) - 2)

\* the remote operation that failed, if any: the last one before the close
LastRemote == IF "dial" \in failing THEN 1 ELSE Len(sshLog) - 1

\* C26: copyBootstrapBundle dials first; every file copy is preceded by a
\* successful 'mkdir -p' of the file's directory, issued exactly once per
\* distinct directory; files are copied in list order and all copies complete
\* before any command is executed; the first failed dial, mkdir or copy aborts
\* with that error and no further remote operation; and the connection is
\* closed on every path after a successful dial.
C26_CopyProtocol ==
    (bbOp = "copyBootstrapBundle" /\ bbRes.done) =>
        /\ sshLog[1].op = "Dial" /\ OpsAt("Dial") = {1}
        /\ IF "dial" \in failing
           THEN sshLog = <<[op |-> "Dial"]>> /\ bbRes.err = "dial"
           ELSE OpsAt("Close") = {Len(sshLog)}
        /\ \A i \in OpsAt("Copy") :
            /\ "mkdir" \notin failing
            /\ Cardinality({j \in Mkdirs : sshLog[j].cmd = <<"mkdir -p ">> \o DirOf(i)}) = 1
            /\ \E j \in Mkdirs : j < i /\ sshLog[j].cmd = <<"mkdir -p ">> \o DirOf(i)
        /\ \A i \in Mkdirs : \A j \in Mkdirs : sshLog[i].cmd = sshLog[j].cmd => i = j
        /\ LET copies == SelectSeq(sshLog, LAMBDA e : e.op = "Copy")
           IN /\ Len(copies) <= Len(items.filesToCopy)
              /\ \A k \in DOMAIN copies :
                    copies[k].path = items.filesToCopy[k].dir \o <<"/", items.filesToCopy[k].name>>
              /\ Commands # {} => Len(copies) = Len(items.filesToCopy)
        /\ \A i \in Commands : \A j \in OpsAt("Copy") \cup Mkdirs : j < i
        /\ ("mkdir" \in failing /\ "dial" \notin failing) =>
                /\ bbRes.err = "mkdir" /\ LastRemote \in Mkdirs /\ OpsAt("Copy") = {}
        /\ \A k \in DOMAIN items.filesToCopy :
            (items.filesToCopy[k].name \in failing /\ failing \cap {"dial", "mkdir"} = {}
                /\ \A m \in 1..(k - 1) : items.filesToCopy[m].name \notin failing) =>
                /\ bbRes.err = items.filesToCopy[k].name
                /\ sshLog[LastRemote].op = "Copy"
                /\ sshLog[LastRemote].path = items.filesToCopy[k].dir \o <<"/", items.filesToCopy[k].name>>
                /\ Cardinality(OpsAt("Copy")) = k

C26_Witness ==
    /\ bbOp = "copyBootstrapBundle" /\ bbRes.done /\ bbRes.err = "istio-ca.pem"
    /\ startIstioProxy
    /\ Len(sshLog) = 5
    /\ sshLog[2] = Exec(<<"mkdir -p ">> \o remoteDir)
    /\ sshLog[3].op = "Copy" /\ sshLog[4].op = "Copy" /\ sshLog[5].op = "Close"

(***************************************************************************)
(* Claims: sidecar-bootstrap arguments                                     *)
(***************************************************************************)
OutputFlagsGiven ==
    {f \in {"o", "outputFile", "outputDir"} : flags[f] # "absent"}

\* C17: unless --docs is given, the command rejects, before doing any work,
\* every invocation that has neither a workload-entry argument nor --all, that
\* has both, that sets more than one of -o, --output-file and --output-dir, or
\* that combines --dry-run with any of the three; every other combination
\* passes.  (--docs and --all count by their value, the other flags by being
\* given on the command line.)
C17_ArgsRejected ==
    argRes.done =>
        LET bad == \/ nargs = 0 /\ flags.all # "true"
                   \/ nargs > 0 /\ flags.all = "true"
                   \/ Cardinality(OutputFlagsGiven) > 1
                   \/ flags.dryRun # "absent" /\ OutputFlagsGiven # {}
        IN /\ (argRes.err # "nil") <=> (flags.docs # "true" /\ bad)
           /\ argRes.ran <=> argRes.err = "nil"

C17_Witness ==
    /\ argRes.done /\ nargs = 1 /\ flags.all = "absent" /\ flags.docs = "absent"
    /\ flags.outputFile = "path/to/file" /\ flags.dryRun = "true"
    /\ flags.o = "absent" /\ flags.outputDir = "absent"
    /\ argRes.err = "--dry-run with --output-file" /\ ~argRes.ran

(***************************************************************************)
(* Claims: ingress gateway address                                         *)
(***************************************************************************)
\* the gateways of the network the global network value selects
SelectedGateways ==
    IF globalNetwork \in DOMAIN meshNetworks THEN meshNetworks[globalNetwork] ELSE <<>>

First(S) == CHOOSE i \in S : \A j \in S : i <= j

\* the source the precedence selects: a Service key, or "address"
SelectedSource ==
    LET named == {i \in DOMAIN SelectedGateways : SelectedGateways[i].RegistryServiceName # <<>>}
        given == {i \in DOMAIN SelectedGateways : SelectedGateways[i].Address # <<>>}
    IN IF named # {}
       THEN LET svcName == SelectedGateways[First(named)].RegistryServiceName
            IN <<svcName[3], svcName[1]>>
       ELSE IF given # {} THEN "address"
       ELSE IF ingressService # "" THEN <<istioNamespace, ingressService>>
       ELSE <<istioNamespace, "istio-ingressgateway">>

\* C18: the address is resolved by precedence: the load-balancer address of
\* the first registry service named by a gateway of the selected mesh network;
\* else the first explicit gateway address of that network, without any Service
\* lookup; else, the network entry being absent or naming neither, the Service
\* named by MeshConfig.IngressService; else the Service istio-ingressgateway
\* of the Istio namespace; a looked-up Service must expose port 15443, and its
\* hostname ingress point is preferred over an IP one.
C18_AddressPrecedence ==
    gwRes.done =>
        IF SelectedSource = "address"
        THEN LET given == {i \in DOMAIN SelectedGateways : SelectedGateways[i].Address # <<>>}
             IN /\ gwRes.lookups = <<>> /\ gwRes.err = "nil"
                /\ gwRes.address = SelectedGateways[First(given)].Address
        ELSE /\ gwRes.lookups = <<SelectedSource>>
             /\ IF SelectedSource \notin DOMAIN services THEN gwRes.err # "nil"
                ELSE LET svc == services[SelectedSource]
                         names == {i \in DOMAIN svc.Ingress : svc.Ingress[i].Hostname # <<>>}
                         ips == {i \in DOMAIN svc.Ingress : svc.Ingress[i].IP # <<>>}
                     IN IF 15443 \notin svc.Ports THEN gwRes.err # "nil"
                        ELSE IF names # {}
                        THEN gwRes.err = "nil" /\ gwRes.address = svc.Ingress[First(names)].Hostname
                        ELSE IF ips # {}
                        THEN gwRes.err = "nil" /\ gwRes.address = svc.Ingress[First(ips)].IP
                        ELSE gwRes.err # "nil"

\* a registry service is named after an explicit address, and its Service
\* lists an IP point before the one with a hostname
C18_Witness ==
    /\ gwRes.done
    /\ SelectedGateways = <<AddressGateway(<<"2.2.2.2">>), RegistryGateway(<<"gw-b", ".", "gateways">>)>>
    /\ ingressService = "custom-ingress"
    /\ gwRes.err = "nil" /\ gwRes.address = <<"gw-b", "example.org">>
    /\ gwRes.lookups = <<<<"gateways", "gw-b">>>>

C18_WitnessDefault ==
    /\ gwRes.done /\ DOMAIN meshNetworks = {"net-2"} /\ ingressService = ""
    /\ gwRes.address = <<"istio-ingressgateway", "10.0.0.1">>

(***************************************************************************)
(* Claims: revision description                                            *)
(***************************************************************************)
\* the errors of the sections that failed: in fetching, or (table output) in
\* printing
SectionErrors(s) ==
    (CASE s = IstioOperatorCRSection ->
            IF "getDiffs" \in fetchFails THEN {FetchError("getDiffs")} ELSE {}
       [] s = GatewaysSection ->
            {FetchError(call) : call \in fetchFails \cap {"getIngressGateways", "getEgressGateways"}}
       [] s \in {NamespaceSummarySection, PodsSection} ->
            {FetchError(call) : call \in fetchFails \cap {"getPodsWithRevision"}}
       [] OTHER -> {})
    \cup (IF output = "table" /\ s \in printFails THEN {PrintError(s)} ELSE {})

\* C19: in the revision description a failure in one section (fetching or
\* printing) does not prevent the remaining requested sections from being
\* attempted, and the error returned to the caller contains the error of every
\* section that failed.
C19_SectionErrorsReturned ==
    (rdRes.done /\ Range(sections) \subseteq KnownSections) =>
        /\ rdRes.fetched = sections
        /\ output = "table" => rdRes.printed = sections
        /\ \A i \in DOMAIN sections :
            \A e \in SectionErrors(sections[i]) : e \in Range(rdRes.returned)

(***************************************************************************)
(* Claims: addon components                                                *)
(***************************************************************************)
\* the keys that are a reserved name written exactly in its reserved form
ExactCollisions ==
    IF acVal.k = "map[string]*ExternalComponentSpec"
    THEN DOMAIN acVal.m \cap {CName("Z", "ipkin"), CName("P", "rometheus")}
    ELSE {}

\* C20: validateAddonComponents returns exactly one error when the map holds a
\* key that is a reserved bundled component name written exactly in the
\* reserved (title-case) form, and no error when no key is such an exact
\* collision (keys matching a reserved name only up to casing, or matching
\* none, are accepted); a value that is no map of external component specs
\* gives one bad-type error.
C20_AddonNameCollision ==
    acRes.done =>
        IF acVal.k # "map[string]*ExternalComponentSpec"
        THEN Len(acRes.errs) = 1 /\ acRes.errs[1].msg = "bad type"
        ELSE IF ExactCollisions # {}
        THEN /\ Len(acRes.errs) = 1
             /\ acRes.errs[1].msg = "invalid addon component name"
             /\ acRes.errs[1].key \in ExactCollisions
        ELSE acRes.errs = <<>>

C20_Witness ==
    /\ acRes.done
    /\ acVal.k = "map[string]*ExternalComponentSpec"
    /\ DOMAIN acVal.m = {CName("Z", "ipkin"), CName("P", "rometheus")}
    /\ Len(acRes.errs) = 1

C20_WitnessCasing ==
    /\ acRes.done
    /\ acVal.k = "map[string]*ExternalComponentSpec"
    /\ DOMAIN acVal.m = {CName("z", "ipkin"), CName("z", "ipkin-custom")}
    /\ acRes.errs = <<>>

(***************************************************************************)
(* Claims: sidecar-bootstrap run                                           *)
(***************************************************************************)
\* C25: when writing the generated bundle to the output directory or to the
\* output archive fails for any workload, the sidecar-bootstrap command
\* returns a non-nil error to its caller.
C25_WriteFailureReturned ==
    (wkRes.done /\ wkOutput \in {"dir", "archive"} /\ wkRes.outErr \notin {"nil", "-"}) =>
        wkRes.err # "nil"

\* the copy over SSH, for comparison: its failure is returned
C25_CopyFailureReturned ==
    (wkRes.done /\ wkOutput = "ssh" /\ wkRes.outErr \notin {"nil", "-"}) => wkRes.err # "nil"

\* the entries at which getIdentityForEachWorkload has to give up
BadEntries ==
    {i \in DOMAIN wkEntries :
        \/ wkEntries[i].ServiceAccount = ""
        \/ <<"CreateToken", wkEntries[i].ServiceAccount>> \in wkFails}

FirstBad == CHOOSE i \in BadEntries : \A j \in BadEntries : i <= j

AccountsUpTo(n) == {wkEntries[i].ServiceAccount : i \in 1..n} \ {""}

\* C27: getIdentityForEachWorkload requests at most one token per distinct
\* ServiceAccount name, returns an identity for every ServiceAccount named in
\* the list, and returns an error and no identity map as soon as it meets an
\* entry with an empty ServiceAccount or a failed token request; after a
\* success processWorkloads finds an identity for every workload and skips
\* none.
C27_OneTokenPerAccount ==
    (wkRes.done /\ wkRes.idErr # "-") =>
        /\ \A i, j \in DOMAIN wkRes.requests : i # j => wkRes.requests[i] # wkRes.requests[j]
        /\ IF BadEntries = {}
           THEN /\ wkRes.idErr = "nil" /\ ~wkRes.idsNil
                /\ wkRes.ids = AccountsUpTo(Len(wkEntries))
                /\ Range(wkRes.requests) = wkRes.ids
                /\ wkRes.skipped = <<>>
                /\ wkRes.outErr = "nil" =>
                        wkRes.handled = [i \in DOMAIN wkEntries |-> wkEntries[i].Name]
           ELSE /\ wkRes.idErr # "nil" /\ wkRes.idsNil /\ wkRes.err # "nil"
                /\ Range(wkRes.requests) = AccountsUpTo(FirstBad)
                /\ wkRes.handled = <<>>

C27_Witness ==
    /\ wkRes.done /\ Len(wkEntries) = 2
    /\ wkEntries[1].ServiceAccount = "ratings-sa" /\ wkEntries[2].ServiceAccount = "ratings-sa"
    /\ wkRes.requests = <<"ratings-sa">>
    /\ wkRes.handled = <<"vm-1", "vm-2">>

C27_WitnessGivesUp ==
    /\ wkRes.done /\ Len(wkEntries) = 2
    /\ wkEntries[1].ServiceAccount = "ratings-sa" /\ wkEntries[2].ServiceAccount = ""
    /\ wkRes.requests = <<"ratings-sa">> /\ wkRes.idsNil
    /\ wkRes.err = "getIdentityForEachWorkload"


(***************************************************************************)
(* Claims: revision list                                                   *)
(***************************************************************************)
\* the run got as far as printing
ListBuilt == rlRes.done /\ rlFails \subseteq {"Write", "MarshalIndent"}

HasCR(ri, iop) == \E k \in DOMAIN ri.IstioOperatorCRs : ri.IstioOperatorCRs[k].Name = iop.Name

HasWebhook(ri, hook) == \E k \in DOMAIN ri.Webhooks : ri.Webhooks[k].Name = hook.Name

\* C28: revisionList reports every IstioOperator CR under its revision, the
\* empty revision as the default one, also when the revision has no mutating
\* webhook, and reports every webhook of a revision, also one with an empty
\* tag.
C28_EveryCRAndWebhookReported ==
    ListBuilt =>
        /\ \A i \in DOMAIN rlCRs :
              LET rev == IF rlCRs[i].Revision = "" THEN "<default>" ELSE rlCRs[i].Revision
              IN rev \in DOMAIN rlRes.revisions /\ HasCR(rlRes.revisions[rev], rlCRs[i])
        /\ \A i \in DOMAIN rlHooks :
              LET rev == IF rlHooks[i].rev = "" THEN "<default>" ELSE rlHooks[i].rev
              IN rev \in DOMAIN rlRes.revisions /\ HasWebhook(rlRes.revisions[rev], rlHooks[i])

\* what revisionList does report: the CRs whose revision has a webhook, and of
\* the webhooks of a revision the first one and those with a tag
C28_ReportedWithWebhook ==
    ListBuilt =>
        /\ \A i \in DOMAIN rlCRs :
              LET rev == renderWithDefault(rlCRs[i].Revision)
              IN (\E j \in DOMAIN rlHooks : renderWithDefault(rlHooks[j].rev) = rev)
                 <=> (rev \in DOMAIN rlRes.revisions /\ HasCR(rlRes.revisions[rev], rlCRs[i]))
        /\ \A i \in DOMAIN rlHooks :
              LET rev == renderWithDefault(rlHooks[i].rev)
              IN /\ rev \in DOMAIN rlRes.revisions
                 /\ HasWebhook(rlRes.revisions[rev], rlHooks[i])
                    <=> \/ rlHooks[i].tag # ""
                        \/ \A j \in 1..(i - 1) : renderWithDefault(rlHooks[j].rev) # rev

\* the table was printed: its rows below the header
TablePrinted == ListBuilt /\ rlFormat = "table"

TableBody == Tail(rlRes.out)

\* the rows of revision r: from the row that names it to the next named row
BlockOf(r) ==
    LET rows == TableBody
        start == CHOOSE k \in DOMAIN rows : rows[k][1] = <<r>>
        later == {k \in DOMAIN rows : k > start /\ rows[k][1] # <<>>}
        end == IF later = {} THEN Len(rows)
               ELSE (CHOOSE k \in later : \A m \in later : k <= m) - 1
    IN SubSeq(rows, start, end)

Column(rows, c) == [k \in DOMAIN rows |-> rows[k][c]]

Filled(cells) == SelectSeq(cells, LAMBDA x : x \notin {<<>>, <<" ">>, <<"<no-customization>">>})

RECURSIVE ComponentsOf(_)
ComponentsOf(iops) ==
    IF iops = <<>> THEN <<>>
    ELSE [k \in DOMAIN Head(iops).Components |-> <<Head(iops).Components[k]>>]
         \o ComponentsOf(Tail(iops))

RECURSIVE CustomizationsOf(_)
CustomizationsOf(iops) ==
    IF iops = <<>> THEN <<>>
    ELSE [k \in DOMAIN Head(iops).Customizations |->
            Head(iops).Customizations[k].Path \o <<"=">> \o Head(iops).Customizations[k].Value]
         \o CustomizationsOf(Tail(iops))

\* C29: every revision of the printed table has at least one row, its name in
\* exactly one row, the first of its block, each of its tags in exactly one
\* row, and each component and each customization of each of its CRs in
\* exactly one row.
C29_TableRows ==
    TablePrinted =>
        \A r \in DOMAIN rlRes.revisions :
            LET ri == rlRes.revisions[r]
                tags == tagsOf(ri)
            IN /\ Cardinality({k \in DOMAIN TableBody : TableBody[k][1] = <<r>>}) = 1
               /\ LET block == BlockOf(r)
                  IN /\ Len(block) >= 1
                     /\ block[1][1] = <<r>>
                     /\ Len(block) >= Len(tags)
                     /\ \A k \in DOMAIN block :
                           block[k][2] = IF k <= Len(tags) THEN Cell(tags[k]) ELSE <<>>
                     /\ Filled(Column(block, 5)) = ComponentsOf(ri.IstioOperatorCRs)
                     /\ rlVerbose =>
                           Filled(Column(block, 6)) = CustomizationsOf(ri.IstioOperatorCRs)

\* a verbose table with a revision of two tags whose CR has more
\* customizations than components
C29_Witness ==
    /\ TablePrinted /\ rlVerbose
    /\ \E r \in DOMAIN rlRes.revisions :
          /\ Len(rlRes.revisions[r].Webhooks) = 2
          /\ \E k \in DOMAIN rlRes.revisions[r].IstioOperatorCRs :
                Len(rlRes.revisions[r].IstioOperatorCRs[k].Customizations)
                    > Len(rlRes.revisions[r].IstioOperatorCRs[k].Components)

\* a table with a revision of two tags and no CR: the rows of the last loop
C29_WitnessNoCR ==
    /\ TablePrinted
    /\ \E r \in DOMAIN rlRes.revisions :
          /\ Len(rlRes.revisions[r].Webhooks) = 2
          /\ rlRes.revisions[r].IstioOperatorCRs = <<>>
          /\ BlockOf(r)[1][3] = <<"<no-iop>">>

\* printJSON was called and the rendering succeeded
JSONPrinted == rlRes.done /\ rlFormat = "json" /\ rlFails \subseteq {"Write"}

\* C30: printJSON writes the JSON rendering of its argument to the output
\* stream exactly once and returns an error when that write fails.
C30_WrittenOnce ==
    JSONPrinted =>
        /\ Len(rlRes.out) = 1
        /\ rlRes.out[1].data = MarshalIndent(rlRes.revisions)
        /\ "Write" \in rlFails => rlRes.err # "nil"

\* what printJSON does: the rendering goes out twice and nil is returned
C30_WrittenTwiceNilReturned ==
    JSONPrinted =>
        /\ Len(rlRes.out) = 2
        /\ \A k \in DOMAIN rlRes.out : rlRes.out[k].data = MarshalIndent(rlRes.revisions)
        /\ rlRes.err = "nil"

====
